---- MODULE Spec2Model ----
(***************************************************************************)
(* FitbitNonLocTcx: the OAuth2 implicit-flow handshake with its local      *)
(* redirect listener (main.go: main, handleOAuth2Callback,                 *)
(* handleTokenReceived, fetchActivityData, getActivityTcx,                 *)
(* injectActivityTcx) and the TCX document transformation.                 *)
(*                                                                         *)
(* The process-wide variables of main.go (token, stateRedir, stateAuth,    *)
(* server, done) are the shared state.  net/http runs every request in a   *)
(* goroutine of its own, so each handler invocation is a process with a    *)
(* program counter; one action is one source statement (or one call) that  *)
(* reads or writes the shared state.                                       *)
(***************************************************************************)
EXTENDS Integers, Sequences, FiniteSets, TLC

\* ------------------------------------------------------------------ bounds
\* Number of HTTP requests the listener receives in one run.
MaxReq == 2
\* Number of times injectActivityTcx is applied to one document.
MaxRuns == 2

\* ------------------------------------------------------------- value sets
\* Values of the "token" query parameter ("" = parameter absent or empty).
ReqTokens == {"", "t1"}
\* Values of the "state" query parameter.
ReqStates == {"", "s1", "s2"}
\* Values generateRandomString can produce (32 random characters, never empty).
RandomStates == {"s1", "s2"}
\* len(os.Args): the program name plus the arguments given.
ArgCounts == {1, 2, 3}
\* os.Args[1]: a date, or a text with which the URL of main.go:258 does not
\* parse (an invalid percent escape).
DateArgs == {"2024-08-11", "%zz"}

Handlers == 1..MaxReq

VARIABLES
    proc,        \* "running" | "exited" | "fatal" (log.Fatalf) | "panic" (handleError)
    mainPc,      \* position of main()
    argc,        \* len(os.Args)
    dateArg,     \* os.Args[1] ("-" when there is none)
    server,      \* "nil" | "created"                       (var server)
    listener,    \* "off" | "serving" | "shutdown"          (the server's listener)
    lsPc,        \* goroutine of main.go:70 : "none" | "spawned" | "serving" | "returned"
    stateAuth,   \* var stateAuth
    stateRedir,  \* var stateRedir
    token,       \* var token
    hpc,         \* hpc[h]: position of handler invocation h
    req,         \* req[h]: the request h serves: [path, token, state]
    pre,         \* token, stateRedir, stateAuth as the latest request handled alone found them
    resp,        \* resp[h]: what h has written to its http.ResponseWriter
    bearer,      \* bearer[h]: <<list, tcx>> bearer tokens h sent ("-" = not sent)
    sd,          \* sd[h]: goroutine of main.go:450 spawned by h
    act,         \* act[h]: the activity chosen at the prompt of h
    doc,         \* doc[h]: the document getActivityTcx returned to h
    nShutdown,   \* calls of server.Shutdown so far
    nSent,       \* completed sends on done
    saved,       \* the files handed to saveToFile, in order
    tcxIn,       \* the arguments of the injectActivityTcx calls checked alone
    tcxDoc,      \* the document those calls edit
    tcxRuns,     \* how many times it has been edited
    tcxPanic,    \* the latest of those calls panicked
    fnCall,      \* a call of one of the helper functions checked alone
    fnRet        \* what that call returned

handlerVars == <<hpc, req, pre, resp, bearer, act, doc>>
sdVars == <<sd, nShutdown, nSent>>
tcxVars == <<tcxIn, tcxDoc, tcxRuns, tcxPanic>>
fnVars == <<fnCall, fnRet>>
outVars == <<saved, tcxVars, fnVars>>

vars == <<proc, mainPc, argc, dateArg, server, listener, lsPc, stateAuth, stateRedir,
          token, handlerVars, sdVars, outVars>>

\* ================================================== text values and time
\* Every text of the document (element text, attribute value) is one record
\* shape, so that a timestamp, a number and a plain string can be compared:
\*   kind "str": the string s;
\*   kind "num": the decimal number n.ms (ms = thousandths);
\*   kind "ts" : the timestamp text <day>T<hh>:<mm>:<ss>[.<ms>](Z | +-oh:om),
\*               day = the date as a day number, z = the offset is written
\*               "Z", off = the numeric offset in minutes (signed), om = the
\*               minute field of the offset as it is written; the hour field
\*               written is OffsetHour(t);
\*   kind "ws" : white space only: a line break followed by n blanks.
Str(x) == [kind |-> "str", s |-> x, n |-> 0, ms |-> 0,
           day |-> 0, hh |-> 0, mm |-> 0, ss |-> 0, z |-> FALSE, off |-> 0,
           om |-> 0]
Num(x, f) == [kind |-> "num", s |-> "", n |-> x, ms |-> f,
              day |-> 0, hh |-> 0, mm |-> 0, ss |-> 0, z |-> FALSE, off |-> 0,
              om |-> 0]
Abs(i) == IF i < 0 THEN -i ELSE i
\* A timestamp whose numeric offset is written with a minute field below 60.
Ts(d, h, m, sec, f, zulu, o) ==
          [kind |-> "ts", s |-> "", n |-> 0, ms |-> f,
           day |-> d, hh |-> h, mm |-> m, ss |-> sec, z |-> zulu, off |-> o,
           om |-> Abs(o) % 60]
\* A timestamp whose numeric offset is written sign oh:om, whatever the fields.
TsOffset(d, h, m, sec, f, sign, oh, om) ==
          [kind |-> "ts", s |-> "", n |-> 0, ms |-> f,
           day |-> d, hh |-> h, mm |-> m, ss |-> sec, z |-> FALSE,
           off |-> sign * (oh * 60 + om), om |-> om]
Ws(blanks) == [kind |-> "ws", s |-> "", n |-> blanks, ms |-> 0,
               day |-> 0, hh |-> 0, mm |-> 0, ss |-> 0, z |-> FALSE, off |-> 0,
               om |-> 0]
\* The hour field of the numeric offset as it is written.
OffsetHour(t) == (Abs(t.off) - t.om) \div 60

MsPerSecond == 1000
MsPerMinute == 60 * MsPerSecond
MsPerHour == 60 * MsPerMinute
MsPerDay == 24 * MsPerHour

\* RFC 3339 section 5.6: time-hour 00-23, time-minute 00-59, time-second
\* 00-60 (60 = a leap second), the offset Z or +-hh:mm with hh 00-23 and
\* mm 00-59.
ValidRFC3339(t) ==
    /\ t.kind = "ts"
    /\ t.hh \in 0..23 /\ t.mm \in 0..59 /\ t.ss \in 0..60
    /\ t.ms \in 0..999
    /\ (t.z => t.off = 0)
    /\ OffsetHour(t) \in 0..23 /\ t.om \in 0..59

\* time.Parse(time.RFC3339, ..) as convertTimestamp calls it (main.go:460):
\* the text must have the layout and every field must be in range.  Go's
\* range of the seconds field is 0..59 (a leap second is "second out of
\* range"); the offset fields are two digits each, and the range test of the
\* layout parser allows an hour field up to 24 and a minute field up to 60.
ParseError(t) ==
    ~ ( /\ t.kind = "ts"
        /\ t.hh \in 0..23 /\ t.mm \in 0..59 /\ t.ss \in 0..59
        /\ t.ms \in 0..999
        /\ (t.z => t.off = 0)
        /\ OffsetHour(t) \in 0..24 /\ t.om \in 0..60 )

\* The instant a parsed timestamp denotes, in milliseconds since day 0 00:00 UTC.
Instant(t) ==
    t.day * MsPerDay + t.hh * MsPerHour + t.mm * MsPerMinute
      + t.ss * MsPerSecond + t.ms - t.off * MsPerMinute

\* Time.UTC().Format(time.RFC3339) (main.go:464-466): the layout has no
\* fractional seconds, so the sub-second part of the instant is not written;
\* a UTC time is written with the offset "Z".
FormatRFC3339(inst) ==
    LET d   == inst \div MsPerDay
        rem == inst % MsPerDay
    IN  Ts(d, rem \div MsPerHour, (rem % MsPerHour) \div MsPerMinute,
           (rem % MsPerMinute) \div MsPerSecond, 0, TRUE, 0)

\* Mutant of convertTimestamp: the conversion to UTC left out, the wall-clock
\* time of the input written as if it were UTC.
convertTimestampWallClock(timeStamp, addSecond) ==
    IF ParseError(timeStamp)
    THEN [s |-> Str(""), err |-> TRUE]
    ELSE [s |-> FormatRFC3339(Instant(timeStamp) + timeStamp.off * MsPerMinute
                                + addSecond),
          err |-> FALSE]

\* Mutant of convertTimestamp: the duration not added.
convertTimestampNoAdd(timeStamp, addSecond) ==
    IF ParseError(timeStamp)
    THEN [s |-> Str(""), err |-> TRUE]
    ELSE [s |-> FormatRFC3339(Instant(timeStamp)), err |-> FALSE]

\* main.go:459-467  convertTimestamp(timeStamp, addSecond); addSecond is a
\* time.Duration, here in milliseconds.  The result is <<string, err>>.
convertTimestamp(timeStamp, addSecond) ==
    IF ParseError(timeStamp)
    THEN [s |-> Str(""), err |-> TRUE]
    ELSE [s |-> FormatRFC3339(Instant(timeStamp) + addSecond), err |-> FALSE]

\* ========================================================== etree document
\* An element: its tag, its attributes in order, the character data that
\* follows its opening tag, its child elements in document order.
Elem(tag, attrs, text, kids) ==
    [tag |-> tag, attrs |-> attrs, text |-> text, kids |-> kids]
Attr(key, value) == [key |-> key, value |-> value]
Leaf(tag, text) == Elem(tag, <<>>, text, <<>>)

\* etree Element.SelectElement: the position of the first child with the tag,
\* 0 for the nil pointer it returns when there is none.
SelectElement(e, tag) ==
    IF \E i \in 1..Len(e.kids) : e.kids[i].tag = tag
    THEN CHOOSE i \in 1..Len(e.kids) :
            /\ e.kids[i].tag = tag
            /\ \A j \in 1..(i-1) : e.kids[j].tag # tag
    ELSE 0

\* etree Element.SelectAttr: the position of the attribute, 0 for nil.
SelectAttr(e, key) ==
    IF \E i \in 1..Len(e.attrs) : e.attrs[i].key = key
    THEN CHOOSE i \in 1..Len(e.attrs) :
            /\ e.attrs[i].key = key
            /\ \A j \in 1..(i-1) : e.attrs[j].key # key
    ELSE 0

\* Mutant of AddChild: a child whose tag the element already has replaces the
\* first child of that tag rather than being appended.
AddChildOnce(e, kid) ==
    IF SelectElement(e, kid.tag) # 0
    THEN [e EXCEPT !.kids[SelectElement(e, kid.tag)] = kid]
    ELSE [e EXCEPT !.kids = Append(@, kid)]

\* etree Element.AddChild / CreateElement: the child becomes the last child.
AddChild(e, kid) == [e EXCEPT !.kids = Append(@, kid)]
\* etree Element.CreateAttr on an element that has no such attribute.
CreateAttr(e, key, value) == [e EXCEPT !.attrs = Append(@, Attr(key, value))]

\* main.go:442  the number of blanks per level of xmlDoc.Indent(2).
IndentSpaces == 2
\* Character data that is white space only (etree flags it when it reads or
\* indents a document); an element without character data has the text "".
IsWhitespace(t) == t.kind = "ws" \/ t = Str("")
\* etree Element.indent at the given depth: the white space among the
\* children is dropped; an element with child elements gets, before each of
\* them, a line break and IndentSpaces blanks per level (none before the
\* children of the document itself), so that is the character data that
\* follows its opening tag; other character data stays.  The documents here
\* have no element with both child elements and other character data.
RECURSIVE IndentElement(_, _)
IndentElement(e, depth) ==
    [e EXCEPT
       !.text = IF ~IsWhitespace(@) THEN @
                ELSE IF e.kids # <<>> /\ depth > 0
                THEN Ws(IndentSpaces * depth)
                ELSE Str(""),
       !.kids = [i \in 1..Len(e.kids) |-> IndentElement(e.kids[i], depth + 1)]]
\* etree Document.Indent(2) (main.go:442).
Indent(xmlDoc) == IndentElement(xmlDoc, 0)

\* ------------------------------------------------------ injectActivityTcx
\* The result of the tree editing of injectActivityTcx: the document as
\* edited, and whether a nil pointer was dereferenced on the way (a panic;
\* the edits made before it stay in the document).
Edited(d) == [doc |-> d, panic |-> FALSE]
Panicked(d) == [doc |-> d, panic |-> TRUE]

\* main.go:402-403  strconv.FormatFloat(totalTime.Seconds(), 'f', -1, 64)
FormatSeconds(totalTime) ==
    Num(totalTime \div MsPerSecond, totalTime % MsPerSecond)

\* Mutant of SwimLap: the Calories element created before DistanceMeters.
SwimLapCaloriesFirst(idElement, totalTime, distMeters, calories) ==
    LET tss == convertTimestamp(idElement, 0).s
        tse == convertTimestamp(idElement, totalTime).s
        trackPtElementStart ==
            Elem("Trackpoint", <<>>, Str(""),
                 << Leaf("Time", tss), Leaf("DistanceMeters", Num(0, 0)) >>)
        trackPtElementEnd ==
            Elem("Trackpoint", <<>>, Str(""),
                 << Leaf("Time", tse), Leaf("DistanceMeters", distMeters) >>)
        trackElement ==
            Elem("Track", <<>>, Str(""),
                 << trackPtElementStart, trackPtElementEnd >>)
    IN  Elem("Lap", << Attr("StartTime", tss) >>, Str(""),
             << Leaf("TotalTimeSeconds", FormatSeconds(totalTime)),
                Leaf("Calories", calories),
                Leaf("DistanceMeters", distMeters),
                Leaf("Intensity", Str("Active")),
                Leaf("TriggerMethod", Str("Manual")),
                trackElement >>)

\* main.go:397-430  the Lap element the Swim branch builds.
SwimLap(idElement, totalTime, distMeters, calories) ==
    LET tss == convertTimestamp(idElement, 0).s
        tse == convertTimestamp(idElement, totalTime).s
        trackPtElementStart ==
            Elem("Trackpoint", <<>>, Str(""),
                 << Leaf("Time", tss), Leaf("DistanceMeters", Num(0, 0)) >>)
        trackPtElementEnd ==
            Elem("Trackpoint", <<>>, Str(""),
                 << Leaf("Time", tse), Leaf("DistanceMeters", distMeters) >>)
        trackElement ==
            Elem("Track", <<>>, Str(""),
                 << trackPtElementStart, trackPtElementEnd >>)
    IN  Elem("Lap", << Attr("StartTime", tss) >>, Str(""),
             << Leaf("TotalTimeSeconds", FormatSeconds(totalTime)),
                Leaf("DistanceMeters", distMeters),
                Leaf("Calories", calories),
                Leaf("Intensity", Str("Active")),
                Leaf("TriggerMethod", Str("Manual")),
                trackElement >>)

\* main.go:388-431  the branch for actName = "Swim".
InjectSwim(xmlDoc, actName, totalTime, distMeters, calories) ==
    LET i1 == SelectElement(xmlDoc, "TrainingCenterDatabase") IN
    IF i1 = 0 THEN Panicked(xmlDoc) ELSE
    LET i2 == SelectElement(xmlDoc.kids[i1], "Activities") IN
    IF i2 = 0 THEN Panicked(xmlDoc) ELSE
    LET i3 == SelectElement(xmlDoc.kids[i1].kids[i2], "Activity") IN
    IF i3 = 0 THEN Panicked(xmlDoc) ELSE
    LET root == xmlDoc.kids[i1].kids[i2].kids[i3]
        put(r) == [xmlDoc EXCEPT !.kids[i1].kids[i2].kids[i3] = r]
        a == SelectAttr(root, "Sport")
    IN
    IF a = 0 THEN Panicked(xmlDoc) ELSE
    LET root1 == [root EXCEPT !.attrs[a].value = Str(actName)]
        id == SelectElement(root1, "Id")
    IN
    IF id = 0 THEN Panicked(put(root1)) ELSE
    LET idElement == root1.kids[id].text
        c == SelectElement(root1, "Creator")
    IN
    IF c = 0 THEN Panicked(put(root1)) ELSE
    LET root2 == [root1 EXCEPT !.kids[c] = AddChild(@, Leaf("Name", Str("Fitbit")))]
        root3 == AddChild(root2, SwimLap(idElement, totalTime, distMeters, calories))
    IN  Edited(put(root3))

\* Mutant of InjectDeviceName: the branch also re-asserts the Sport attribute,
\* as the Swim branch does.
InjectDeviceNameAndSport(xmlDoc) ==
    LET i1 == SelectElement(xmlDoc, "TrainingCenterDatabase") IN
    IF i1 = 0 THEN Panicked(xmlDoc) ELSE
    LET i2 == SelectElement(xmlDoc.kids[i1], "Activities") IN
    IF i2 = 0 THEN Panicked(xmlDoc) ELSE
    LET i3 == SelectElement(xmlDoc.kids[i1].kids[i2], "Activity") IN
    IF i3 = 0 THEN Panicked(xmlDoc) ELSE
    LET c == SelectElement(xmlDoc.kids[i1].kids[i2].kids[i3], "Creator") IN
    IF c = 0 THEN Panicked(xmlDoc) ELSE
    Edited([xmlDoc EXCEPT
              !.kids[i1].kids[i2].kids[i3].attrs[1].value = Str("Treadmill"),
              !.kids[i1].kids[i2].kids[i3].kids[c] =
                  AddChild(@, Leaf("Name", Str("Fitbit")))])

\* main.go:434-440  the branch for actName = "Treadmill" or "Weights".
InjectDeviceName(xmlDoc) ==
    LET i1 == SelectElement(xmlDoc, "TrainingCenterDatabase") IN
    IF i1 = 0 THEN Panicked(xmlDoc) ELSE
    LET i2 == SelectElement(xmlDoc.kids[i1], "Activities") IN
    IF i2 = 0 THEN Panicked(xmlDoc) ELSE
    LET i3 == SelectElement(xmlDoc.kids[i1].kids[i2], "Activity") IN
    IF i3 = 0 THEN Panicked(xmlDoc) ELSE
    LET c == SelectElement(xmlDoc.kids[i1].kids[i2].kids[i3], "Creator") IN
    IF c = 0 THEN Panicked(xmlDoc) ELSE
    Edited([xmlDoc EXCEPT !.kids[i1].kids[i2].kids[i3].kids[c] =
                AddChild(@, Leaf("Name", Str("Fitbit")))])

\* Mutant of injectActivityTcx: the device-name branch as the else of the
\* Swim branch, taken for every category that is not "Swim".
injectActivityTcxElse(xmlDoc, actName, totalTime, distMeters, calories) ==
    IF actName = "Swim"
    THEN InjectSwim(xmlDoc, actName, totalTime, distMeters, calories)
    ELSE InjectDeviceName(xmlDoc)

\* main.go:385-441  the tree editing of injectActivityTcx: the Swim branch,
\* then the Treadmill/Weights branch, each under its own condition.
injectActivityTcx(xmlDoc, actName, totalTime, distMeters, calories) ==
    LET r1 == IF actName = "Swim"
              THEN InjectSwim(xmlDoc, actName, totalTime, distMeters, calories)
              ELSE Edited(xmlDoc)
    IN  IF r1.panic THEN r1
        ELSE IF actName = "Treadmill" \/ actName = "Weights"
             THEN InjectDeviceName(r1.doc)
             ELSE r1

\* ============================================ PKCE and authorization URL
\* A Go string is the sequence of its characters (all of them ASCII here).

\* main.go:136  const rfc3986Chars, the 66 unreserved characters.
rfc3986Chars ==
    << "A", "B", "C", "D", "E", "F", "G", "H", "I", "J", "K", "L", "M", "N",
       "O", "P", "Q", "R", "S", "T", "U", "V", "W", "X", "Y", "Z", "a", "b",
       "c", "d", "e", "f", "g", "h", "i", "j", "k", "l", "m", "n", "o", "p",
       "q", "r", "s", "t", "u", "v", "w", "x", "y", "z", "0", "1", "2", "3",
       "4", "5", "6", "7", "8", "9", "-", ".", "_", "~" >>

\* main.go:154  charset of generateRandomString, 62 letters and digits.
charset ==
    << "a", "b", "c", "d", "e", "f", "g", "h", "i", "j", "k", "l", "m", "n",
       "o", "p", "q", "r", "s", "t", "u", "v", "w", "x", "y", "z", "0", "1",
       "2", "3", "4", "5", "6", "7", "8", "9", "A", "B", "C", "D", "E", "F",
       "G", "H", "I", "J", "K", "L", "M", "N", "O", "P", "Q", "R", "S", "T",
       "U", "V", "W", "X", "Y", "Z" >>

\* crypto/rand as a source of numbers: draw i (counted from 0) of
\* rand.Int(rand.Reader, max) is a number in 0..max-1, or fails from draw
\* failAt on (failAt = -1: the source never fails).
RandSource(seed, step, failAt) == [seed |-> seed, step |-> step, failAt |-> failAt]
RandFails(rnd, i) == rnd.failAt >= 0 /\ i >= rnd.failAt
RandInt(rnd, i, max) == (rnd.seed + i * rnd.step) % max

MinVerifierLength == 43
MaxVerifierLength == 128
StateLength == 32

\* Mutant of generateCodeVerifier: both limits exclusive.
generateCodeVerifierExclusive(length, rnd) ==
    IF length <= MinVerifierLength \/ length >= MaxVerifierLength
    THEN [s |-> <<>>, err |-> TRUE]
    ELSE [s |-> [i \in 1..length |->
                   rfc3986Chars[RandInt(rnd, i - 1, Len(rfc3986Chars)) + 1]],
          err |-> FALSE]

\* main.go:135-150  generateCodeVerifier(length) -> (string, error)
generateCodeVerifier(length, rnd) ==
    IF length < MinVerifierLength \/ length > MaxVerifierLength
    THEN [s |-> <<>>, err |-> TRUE]
    ELSE IF \E i \in 0..(length - 1) : RandFails(rnd, i)
         THEN [s |-> <<>>, err |-> TRUE]
         ELSE [s |-> [i \in 1..length |->
                        rfc3986Chars[RandInt(rnd, i - 1, Len(rfc3986Chars)) + 1]],
               err |-> FALSE]

\* main.go:153-167  generateRandomString() -> string; panic(err) when
\* rand.Int fails.  The caller stores the string in stateAuth.
generateRandomString(rnd) ==
    IF \E i \in 0..(StateLength - 1) : RandFails(rnd, i)
    THEN [s |-> <<>>, panic |-> TRUE]
    ELSE [s |-> [i \in 1..StateLength |->
                   charset[RandInt(rnd, i - 1, Len(charset)) + 1]],
          panic |-> FALSE]

\* Mutant of scopeStringBuilder: every trailing "+" cut off, not only one.
scopeStringBuilderTrimRight(scopes) ==
    LET RECURSIVE Loop(_, _)
        Loop(rest, scopeString) ==
            IF rest = <<>> THEN scopeString
            ELSE Loop(Tail(rest), scopeString \o Head(rest) \o << "+" >>)
        RECURSIVE Trim(_)
        Trim(t) == IF t # <<>> /\ t[Len(t)] = "+"
                   THEN Trim(SubSeq(t, 1, Len(t) - 1)) ELSE t
    IN  Trim(Loop(scopes, <<>>))

\* main.go:177-186  scopeStringBuilder(scopes): every scope followed by "+",
\* then the last character cut off when it is a "+".
scopeStringBuilder(scopes) ==
    LET RECURSIVE Loop(_, _)
        Loop(rest, scopeString) ==
            IF rest = <<>> THEN scopeString
            ELSE Loop(Tail(rest), scopeString \o Head(rest) \o << "+" >>)
        scopeString == Loop(scopes, <<>>)
        lastChar == Len(scopeString) - 1
    IN  IF lastChar >= 0 /\ scopeString[lastChar + 1] = "+"
        THEN SubSeq(scopeString, 1, lastChar)
        ELSE scopeString

\* An oauth2.Config, the fields main.go sets (main.go:103-109).
OauthCfg(clientID, clientSecret, redirectURL, scopes) ==
    [ClientID |-> clientID, ClientSecret |-> clientSecret,
     RedirectURL |-> redirectURL, Scopes |-> scopes]

\* ------------------------------------------------------------ credentials
\* The reader handed to readCredFile: whether Read fails, and the text it
\* delivers as encoding/json sees it: no JSON text ("malformed"), the JSON
\* values null and [] ("null", "array"), or a JSON object with its members in
\* the order written.
JStr(s) == [kind |-> "string", s |-> s]
JNull == [kind |-> "null", s |-> <<>>]
JNum == [kind |-> "number", s |-> <<>>]
Member(key, val) == [key |-> key, val |-> val]
CredFile(readErr, kind, members) ==
    [readErr |-> readErr, kind |-> kind, members |-> members]
NoFile == CredFile(FALSE, "malformed", <<>>)

\* data.Credentials (data.go:30-34): CId, CSecret, RedirectURL.
Credentials(cid, csecret, redirectURL) ==
    [CId |-> cid, CSecret |-> csecret, RedirectURL |-> redirectURL]

\* The json names of the fields of data.Credentials (data.go:31-33).
JsonClientID == << "c", "l", "i", "e", "n", "t", "I", "D" >>
JsonClientSecret == << "c", "l", "i", "e", "n", "t", "S", "e", "c", "r", "e", "t" >>
JsonRedirectUrl == << "r", "e", "d", "i", "r", "e", "c", "t", "U", "r", "l" >>

UpperLetters == << "A", "B", "C", "D", "E", "F", "G", "H", "I", "J", "K", "L", "M", "N", "O", "P", "Q", "R", "S", "T", "U", "V", "W", "X", "Y", "Z" >>
LowerLetters == << "a", "b", "c", "d", "e", "f", "g", "h", "i", "j", "k", "l", "m", "n", "o", "p", "q", "r", "s", "t", "u", "v", "w", "x", "y", "z" >>
\* The long s (U+017F) and the Kelvin sign (U+212A), each one character.
LongS == "U+017F"
KelvinSign == "U+212A"
\* Unicode simple case folding of one character, as far as it reaches ASCII:
\* an upper-case letter and its lower-case letter fold together, the long s
\* folds with s and the Kelvin sign with k.
FoldChar(c) ==
    IF \E i \in 1..26 : UpperLetters[i] = c
    THEN LowerLetters[CHOOSE i \in 1..26 : UpperLetters[i] = c]
    ELSE IF c = LongS THEN "s"
    ELSE IF c = KelvinSign THEN "k"
    ELSE c
\* encoding/json matches an object key with a field's json name without
\* regard to case: two names match when their folded forms are equal.
LowerKey(k) == [i \in 1..Len(k) |-> FoldChar(k[i])]
\* The field of data.Credentials an object key is stored in, "" for none.
FieldOf(key) ==
    CASE LowerKey(key) = LowerKey(JsonClientID) -> "clientid"
      [] LowerKey(key) = LowerKey(JsonClientSecret) -> "clientsecret"
      [] LowerKey(key) = LowerKey(JsonRedirectUrl) -> "redirecturl"
      [] OTHER -> ""

\* json.Unmarshal(byteValue, &apiCred): a text that is no JSON is rejected
\* before anything is stored; null stores nothing; a JSON value that is not
\* an object cannot be stored in the struct; of an object every member whose
\* key names a field is stored in order (a later one overwrites an earlier
\* one), null stores nothing, a value that is no string is an error after
\* which the other members are still stored; other keys are skipped.
RECURSIVE UnmarshalMembers(_, _)
UnmarshalMembers(members, r) ==
    IF members = <<>> THEN r
    ELSE LET m == Head(members)
             f == FieldOf(m.key)
             known == f \in {"clientid", "clientsecret", "redirecturl"}
             c == r.cred
             nc == IF ~known \/ m.val.kind # "string" THEN c
                   ELSE IF f = "clientid"
                        THEN Credentials(m.val.s, c.CSecret, c.RedirectURL)
                   ELSE IF f = "clientsecret"
                        THEN Credentials(c.CId, m.val.s, c.RedirectURL)
                   ELSE Credentials(c.CId, c.CSecret, m.val.s)
             ne == r.err \/ (known /\ m.val.kind \notin {"string", "null"})
         IN  UnmarshalMembers(Tail(members), [cred |-> nc, err |-> ne])
Unmarshal(file, apiCred) ==
    CASE file.kind = "malformed" -> [cred |-> apiCred, err |-> TRUE]
      [] file.kind = "null" -> [cred |-> apiCred, err |-> FALSE]
      [] file.kind = "object" ->
            UnmarshalMembers(file.members, [cred |-> apiCred, err |-> FALSE])
      [] OTHER -> [cred |-> apiCred, err |-> TRUE]

\* The scopes main.go:103 requests.
RequestedScopes ==
    << << "a", "c", "t", "i", "v", "i", "t", "y" >>,
       << "h", "e", "a", "r", "t", "r", "a", "t", "e" >>,
       << "l", "o", "c", "a", "t", "i", "o", "n" >>,
       << "p", "r", "o", "f", "i", "l", "e" >> >>

\* The nil *oauth2.Config.
NilCfg == [nil |-> TRUE, cfg |-> OauthCfg(<<>>, <<>>, <<>>, <<>>)]
\* What readCredFile returns: the configuration (or nil) and the error:
\* "" (nil), "read", "unmarshal" or "config".
CredResult(cfg, why) == [cfg |-> cfg, why |-> why]

\* Mutant of readCredFile: one of the client id and the redirect URL is
\* enough.
readCredFileEither(reader) ==
    IF reader.readErr THEN CredResult(NilCfg, "read")
    ELSE LET first == Unmarshal(reader, Credentials(<<>>, <<>>, <<>>))
             second == Unmarshal(reader, first.cred)
             apiCred == second.cred
         IN  IF second.err THEN CredResult(NilCfg, "unmarshal")
             ELSE IF apiCred.CId # <<>> \/ apiCred.RedirectURL # <<>>
             THEN CredResult([nil |-> FALSE,
                              cfg |-> OauthCfg(apiCred.CId, apiCred.CSecret,
                                               apiCred.RedirectURL,
                                               RequestedScopes)], "")
             ELSE CredResult(NilCfg, "config")

\* main.go:82-111  readCredFile(reader): io.ReadAll; json.Unmarshal twice
\* (main.go:92 with the error dropped, main.go:93 with the error checked);
\* the configuration when neither the client id nor the redirect URL is
\* empty.
readCredFile(reader) ==
    IF reader.readErr THEN CredResult(NilCfg, "read")
    ELSE LET first == Unmarshal(reader, Credentials(<<>>, <<>>, <<>>))
             second == Unmarshal(reader, first.cred)
             apiCred == second.cred
         IN  IF second.err THEN CredResult(NilCfg, "unmarshal")
             ELSE IF apiCred.CId # <<>> /\ apiCred.RedirectURL # <<>>
             THEN CredResult([nil |-> FALSE,
                              cfg |-> OauthCfg(apiCred.CId, apiCred.CSecret,
                                               apiCred.RedirectURL,
                                               RequestedScopes)], "")
             ELSE CredResult(NilCfg, "config")

\* The constant pieces of the format string of main.go:172.
AuthEndpoint ==
    << "h", "t", "t", "p", "s", ":", "/", "/", "w", "w", "w", ".", "f", "i",
       "t", "b", "i", "t", ".", "c", "o", "m", "/", "o", "a", "u", "t", "h",
       "2", "/", "a", "u", "t", "h", "o", "r", "i", "z", "e" >>
ResponseTypeIs ==
    << "?", "r", "e", "s", "p", "o", "n", "s", "e", "_", "t", "y", "p", "e",
       "=", "t", "o", "k", "e", "n" >>
ClientIdIs ==
    << "&", "c", "l", "i", "e", "n", "t", "_", "i", "d", "=" >>
RedirectUriIs ==
    << "&", "r", "e", "d", "i", "r", "e", "c", "t", "_", "u", "r", "i", "=" >>
ScopeIs ==
    << "&", "s", "c", "o", "p", "e", "=" >>
CodeChallengeIs ==
    << "&", "c", "o", "d", "e", "_", "c", "h", "a", "l", "l", "e", "n", "g",
       "e", "=" >>
CodeChallengeMethodIs ==
    << "&", "c", "o", "d", "e", "_", "c", "h", "a", "l", "l", "e", "n", "g",
       "e", "_", "m", "e", "t", "h", "o", "d", "=" >>
StateIs ==
    << "&", "s", "t", "a", "t", "e", "=" >>
S256 ==
    << "S", "2", "5", "6" >>

\* Mutant of getAuthURL: the client secret sent as one more parameter.
getAuthURLWithSecret(codeChallenge, ouathCfg, rnd) ==
    LET st == generateRandomString(rnd) IN
    IF st.panic
    THEN [url |-> <<>>, stateAuth |-> <<>>, panic |-> TRUE]
    ELSE [url |-> AuthEndpoint \o ResponseTypeIs
                    \o ClientIdIs \o ouathCfg.ClientID
                    \o RedirectUriIs \o ouathCfg.RedirectURL
                    \o ScopeIs \o scopeStringBuilder(ouathCfg.Scopes)
                    \o CodeChallengeIs \o codeChallenge
                    \o CodeChallengeMethodIs \o S256
                    \o StateIs \o st.s
                    \o << "&", "c", "l", "i", "e", "n", "t", "_", "s", "e",
                          "c", "r", "e", "t", "=" >> \o ouathCfg.ClientSecret,
          stateAuth |-> st.s,
          panic |-> FALSE]

\* Mutant of getAuthURL: the client id and the redirect URL passed to
\* Sprintf in the other order.
getAuthURLSwapped(codeChallenge, ouathCfg, rnd) ==
    LET st == generateRandomString(rnd) IN
    IF st.panic
    THEN [url |-> <<>>, stateAuth |-> <<>>, panic |-> TRUE]
    ELSE [url |-> AuthEndpoint \o ResponseTypeIs
                    \o ClientIdIs \o ouathCfg.RedirectURL
                    \o RedirectUriIs \o ouathCfg.ClientID
                    \o ScopeIs \o scopeStringBuilder(ouathCfg.Scopes)
                    \o CodeChallengeIs \o codeChallenge
                    \o CodeChallengeMethodIs \o S256
                    \o StateIs \o st.s,
          stateAuth |-> st.s,
          panic |-> FALSE]

\* main.go:170-174  getAuthURL(codeChallenge, ouathCfg): fmt.Sprintf puts the
\* values into the format string as they are (%s).  The result is the URL,
\* the value generateRandomString left in stateAuth, and whether it panicked.
getAuthURL(codeChallenge, ouathCfg, rnd) ==
    LET st == generateRandomString(rnd) IN
    IF st.panic
    THEN [url |-> <<>>, stateAuth |-> <<>>, panic |-> TRUE]
    ELSE [url |-> AuthEndpoint \o ResponseTypeIs
                    \o ClientIdIs \o ouathCfg.ClientID
                    \o RedirectUriIs \o ouathCfg.RedirectURL
                    \o ScopeIs \o scopeStringBuilder(ouathCfg.Scopes)
                    \o CodeChallengeIs \o codeChallenge
                    \o CodeChallengeMethodIs \o S256
                    \o StateIs \o st.s,
          stateAuth |-> st.s,
          panic |-> FALSE]

\* The text sub occurs in the text t.
Contains(t, sub) ==
    \E i \in 0..(Len(t) - Len(sub)) : SubSeq(t, i + 1, i + Len(sub)) = sub

\* ------------------------------------------------ the two upstream requests
\* strconv.FormatInt(n, 10): the decimal digits, "-" before a negative number.
DecimalDigits == << "0", "1", "2", "3", "4", "5", "6", "7", "8", "9" >>
RECURSIVE FormatInt(_)
FormatInt(n) ==
    IF n < 0 THEN << "-" >> \o FormatInt(-n)
    ELSE IF n < 10 THEN << DecimalDigits[n + 1] >>
    ELSE FormatInt(n \div 10) \o << DecimalDigits[(n % 10) + 1] >>

\* main.go:258  the URL of the activity list: the date of os.Args[1] between
\* two literals.
ActivityListURL(date) ==
    << "h", "t", "t", "p", "s", ":", "/", "/", "a", "p", "i", ".", "f", "i",
       "t", "b", "i", "t", ".", "c", "o", "m", "/", "1", "/", "u", "s", "e",
       "r", "/", "-", "/", "a", "c", "t", "i", "v", "i", "t", "i", "e", "s",
       "/", "d", "a", "t", "e", "/" >>
    \o date \o << ".", "j", "s", "o", "n" >>

\* main.go:357  the URL of the TCX of one activity, from its log id.
ActivityTcxURL(logId) ==
    << "h", "t", "t", "p", "s", ":", "/", "/", "a", "p", "i", ".", "f", "i",
       "t", "b", "i", "t", ".", "c", "o", "m", "/", "1", "/", "u", "s", "e",
       "r", "/", "-", "/", "a", "c", "t", "i", "v", "i", "t", "i", "e", "s",
       "/" >>
    \o FormatInt(logId)
    \o
    << ".", "t", "c", "x", "?", "i", "n", "c", "l", "u", "d", "e", "P", "a",
       "r", "t", "i", "a", "l", "T", "C", "X", "=", "t", "r", "u", "e" >>

\* main.go:264, 363  the Authorization header both requests carry, built
\* from the package variable token.
BearerHeader(tok) == << "B", "e", "a", "r", "e", "r", " " >> \o tok

\* main.go:260  http.NewRequest parses the URL and fails on an escape
\* sequence that is none.
BadEscape(url) == Contains(url, << "%", "z", "z" >>)

\* ------------------------------------------------ net/url, as the test reads it
\* The printable ASCII characters in code order: character i is the byte 31+i
\* (the grave accent, byte 96, is written "GRAVE").
AsciiPrintable ==
    << " ", "!", "\"", "#", "$", "%", "&", "'", "(", ")", "*", "+", ",", "-",
       ".", "/", "0", "1", "2", "3", "4", "5", "6", "7", "8", "9", ":", ";",
       "<", "=", ">", "?", "@", "A", "B", "C", "D", "E", "F", "G", "H", "I",
       "J", "K", "L", "M", "N", "O", "P", "Q", "R", "S", "T", "U", "V", "W",
       "X", "Y", "Z", "[", "\\", "]", "^", "_", "GRAVE", "a", "b", "c", "d", "e",
       "f", "g", "h", "i", "j", "k", "l", "m", "n", "o", "p", "q", "r", "s",
       "t", "u", "v", "w", "x", "y", "z", "{", "|", "}", "~" >>
Ord(c) == 31 + (CHOOSE i \in 1..Len(AsciiPrintable) : AsciiPrintable[i] = c)
Chr(n) == AsciiPrintable[n - 31]

\* strings.Index / strings.Cut for a one-character separator.
IndexOf(s, c) ==
    IF \E i \in 1..Len(s) : s[i] = c
    THEN CHOOSE i \in 1..Len(s) : s[i] = c /\ \A j \in 1..(i - 1) : s[j] # c
    ELSE 0
CutBefore(s, c) == IF IndexOf(s, c) = 0 THEN s ELSE SubSeq(s, 1, IndexOf(s, c) - 1)
CutAfter(s, c) == IF IndexOf(s, c) = 0 THEN <<>> ELSE SubSeq(s, IndexOf(s, c) + 1, Len(s))

HexDigits ==
    << "0", "1", "2", "3", "4", "5", "6", "7", "8", "9", "a", "b", "c", "d",
       "e", "f", "A", "B", "C", "D", "E", "F" >>
IsHex(c) == \E i \in 1..Len(HexDigits) : HexDigits[i] = c
\* unhex: 0-9 are 0..9, a-f and A-F are 10..15.
HexValue(c) ==
    LET i == CHOOSE k \in 1..Len(HexDigits) : HexDigits[k] = c
    IN  IF i <= 16 THEN i - 1 ELSE i - 7

\* url.QueryUnescape: "+" is a space, "%XY" the byte 16*X+Y; a "%" that is
\* not followed by two hex digits is an error.  (The bytes that occur in
\* the texts unescaped here are printable ASCII.)
QueryUnescapeError(s) ==
    \E i \in 1..Len(s) :
        /\ s[i] = "%"
        /\ ~(i + 2 <= Len(s) /\ IsHex(s[i + 1]) /\ IsHex(s[i + 2]))
RECURSIVE QueryUnescape(_)
QueryUnescape(s) ==
    IF s = <<>> THEN <<>>
    ELSE IF s[1] = "+" THEN << " " >> \o QueryUnescape(Tail(s))
    ELSE IF s[1] = "%"
         THEN << Chr(16 * HexValue(s[2]) + HexValue(s[3])) >>
                \o QueryUnescape(SubSeq(s, 4, Len(s)))
    ELSE << s[1] >> \o QueryUnescape(Tail(s))

\* url.Parse(..).RawQuery: the fragment is what follows the first "#", the
\* query what follows the first "?" of the rest.
RawQuery(rawURL) == CutAfter(CutBefore(rawURL, "#"), "?")

\* The "&"-separated pieces of a query, empty pieces left out.
RECURSIVE QueryPieces(_)
QueryPieces(query) ==
    IF query = <<>> THEN <<>>
    ELSE (IF CutBefore(query, "&") = <<>> THEN <<>>
          ELSE << CutBefore(query, "&") >>)
         \o QueryPieces(CutAfter(query, "&"))

\* The parameters a URL carries, as written: each piece cut at its first "=".
RawParams(rawURL) ==
    LET pieces == QueryPieces(RawQuery(rawURL))
    IN  [i \in 1..Len(pieces) |->
           [key |-> CutBefore(pieces[i], "="), value |-> CutAfter(pieces[i], "=")]]

\* url.ParseQuery, errors ignored as URL.Query() does: a piece with a ";" or
\* with a bad escape in its key or value is dropped, the others are
\* unescaped; the pairs in their order in the query.
Query(rawURL) ==
    LET raw == RawParams(rawURL)
        good == SelectSeq(raw, LAMBDA p :
                    /\ IndexOf(p.key, ";") = 0 /\ IndexOf(p.value, ";") = 0
                    /\ ~QueryUnescapeError(p.key)
                    /\ ~QueryUnescapeError(p.value))
    IN  [i \in 1..Len(good) |->
           [key |-> QueryUnescape(good[i].key),
            value |-> QueryUnescape(good[i].value)]]

\* url.Values[key]: the values of the key, in order.
ValuesOf(q, key) ==
    LET hits == SelectSeq(q, LAMBDA p : p.key = key)
    IN  [i \in 1..Len(hits) |-> hits[i].value]
KeysOf(q) == {q[i].key : i \in 1..Len(q)}

\* ------------------------------------------------- crypto/sha256, base64
\* A 32-bit word is the sequence of its 32 bits, the most significant first.
Bits(n, w) == [i \in 1..w |-> (n \div 2^(w - i)) % 2] \o <<>>
RECURSIVE BitsValue(_)
BitsValue(b) ==
    IF b = <<>> THEN 0 ELSE 2 * BitsValue(SubSeq(b, 1, Len(b) - 1)) + b[Len(b)]
Word(hi, lo) == Bits(hi, 16) \o Bits(lo, 16)
Xor(a, b) == [i \in 1..32 |-> (a[i] + b[i]) % 2] \o <<>>
And(a, b) == [i \in 1..32 |-> a[i] * b[i]] \o <<>>
Not(a) == [i \in 1..32 |-> 1 - a[i]] \o <<>>
RotR(a, n) == SubSeq(a, 32 - n + 1, 32) \o SubSeq(a, 1, 32 - n)
ShR(a, n) == [i \in 1..n |-> 0] \o SubSeq(a, 1, 32 - n)
\* Addition modulo 2^32, by 16-bit halves.
Add(a, b) ==
    LET lo == BitsValue(SubSeq(a, 17, 32)) + BitsValue(SubSeq(b, 17, 32))
        hi == BitsValue(SubSeq(a, 1, 16)) + BitsValue(SubSeq(b, 1, 16))
                + lo \div 65536
    IN  Word(hi % 65536, lo % 65536)

\* FIPS 180-4: the round constants and the initial hash value, each word as
\* its two 16-bit halves.
Sha256K ==
    << <<17034, 12184>>, <<28983, 17553>>, <<46528, 64463>>, <<59829,
       56229>>, <<14678, 49755>>, <<23025, 4593>>, <<37439, 33444>>, <<43804,
       24277>>, <<55303, 43672>>, <<4739, 23297>>, <<9265, 34238>>, <<21772,
       32195>>, <<29374, 23924>>, <<32990, 45566>>, <<39900, 1703>>, <<49563,
       61812>>, <<58523, 27073>>, <<61374, 18310>>, <<4033, 40390>>, <<9228,
       41420>>, <<11753, 11375>>, <<19060, 33962>>, <<23728, 43484>>,
       <<30457, 35034>>, <<38974, 20818>>, <<43057, 50797>>, <<45059,
       10184>>, <<48985, 32711>>, <<50912, 3059>>, <<54695, 37191>>, <<1738,
       25425>>, <<5161, 10599>>, <<10167, 2693>>, <<11803, 8504>>, <<19756,
       28156>>, <<21304, 3347>>, <<25866, 29524>>, <<30314, 2747>>, <<33218,
       51502>>, <<37490, 11397>>, <<41663, 59553>>, <<43034, 26187>>,
       <<49739, 35696>>, <<51052, 20899>>, <<53650, 59417>>, <<54937, 1572>>,
       <<62478, 13701>>, <<4202, 41072>>, <<6564, 49430>>, <<7735, 27656>>,
       <<10056, 30540>>, <<13488, 48309>>, <<14620, 3251>>, <<20184, 43594>>,
       <<23452, 51791>>, <<26670, 28659>>, <<29839, 33518>>, <<30885,
       25455>>, <<33992, 30740>>, <<36039, 520>>, <<37054, 65530>>, <<42064,
       27883>>, <<48889, 41975>>, <<50801, 30962>> >>
Sha256H0 ==
    << <<27145, 58983>>, <<47975, 44677>>, <<15470, 62322>>, <<42319,
       62778>>, <<20750, 21119>>, <<39685, 26764>>, <<8067, 55723>>, <<23520,
       52505>> >>

Ch(x, y, z) == Xor(And(x, y), And(Not(x), z))
Maj(x, y, z) == Xor(Xor(And(x, y), And(x, z)), And(y, z))
BigSigma0(x) == Xor(Xor(RotR(x, 2), RotR(x, 13)), RotR(x, 22))
BigSigma1(x) == Xor(Xor(RotR(x, 6), RotR(x, 11)), RotR(x, 25))
SmallSigma0(x) == Xor(Xor(RotR(x, 7), RotR(x, 18)), ShR(x, 3))
SmallSigma1(x) == Xor(Xor(RotR(x, 17), RotR(x, 19)), ShR(x, 10))

\* The message schedule: 16 words of the block extended to 64.  Extend(w, n)
\* is w with its next n words, computed by halves, the first half first.
RECURSIVE Extend(_, _)
Extend(w, n) ==
    IF n = 1
    THEN LET t == Len(w) + 1
         IN  Append(w, Add(Add(SmallSigma1(w[t - 2]), w[t - 7]),
                           Add(SmallSigma0(w[t - 15]), w[t - 16])))
    ELSE LET half == Extend(w, n \div 2)
         IN  IF Len(half) > 0 THEN Extend(half, n - n \div 2) ELSE half
Schedule(w) == Extend(w, 64 - Len(w))

\* Round t on the working variables st = <<a, b, c, d, e, f, g, h>>.
Round(st, w, t) ==
    LET k == Word(Sha256K[t][1], Sha256K[t][2])
        t1 == Add(Add(Add(st[8], BigSigma1(st[5])),
                      Add(Ch(st[5], st[6], st[7]), k)), w[t])
        t2 == Add(BigSigma0(st[1]), Maj(st[1], st[2], st[3]))
    IN  << Add(t1, t2), st[1], st[2], st[3],
           Add(st[4], t1), st[5], st[6], st[7] >>
\* Rounds lo..hi, computed by halves, the first half first.
RECURSIVE Rounds(_, _, _, _)
Rounds(st, w, lo, hi) ==
    IF lo = hi THEN Round(st, w, lo)
    ELSE LET half == Rounds(st, w, lo, (lo + hi) \div 2)
         IN  IF Len(half) = 8 THEN Rounds(half, w, (lo + hi) \div 2 + 1, hi)
             ELSE half

\* The message padded to whole 64-byte blocks: the byte 128, zero bytes, and
\* the length in bits as 8 bytes.
Padded(bytes) ==
    LET n == Len(bytes)
        zeros == (((55 - n) % 64) + 64) % 64
        bitLen == 8 * n
    IN  bytes \o << 128 >> \o [i \in 1..zeros |-> 0]
          \o << 0, 0, 0, 0, 0, (bitLen \div 65536) % 256,
                (bitLen \div 256) % 256, bitLen % 256 >>

\* The hash value after the blocks from the one at byte p on.
RECURSIVE Blocks(_, _, _)
Blocks(h, padded, p) ==
    IF p > Len(padded) THEN h
    ELSE LET w16 == [i \in 1..16 |->
                       Bits(padded[p + 4 * (i - 1)], 8)
                         \o Bits(padded[p + 4 * (i - 1) + 1], 8)
                         \o Bits(padded[p + 4 * (i - 1) + 2], 8)
                         \o Bits(padded[p + 4 * (i - 1) + 3], 8)] \o <<>>
             st == Rounds(h, Schedule(w16), 1, 64)
             nh == [i \in 1..8 |-> Add(h[i], st[i])] \o <<>>
         IN  IF Len(nh) = 8 THEN Blocks(nh, padded, p + 64) ELSE h

\* sha256.Sum256: the digest as its 256 bits.
Sum256(bytes) ==
    LET h0 == [i \in 1..8 |-> Word(Sha256H0[i][1], Sha256H0[i][2])] \o <<>>
        h == Blocks(h0, Padded(bytes), 1)
    IN  h[1] \o h[2] \o h[3] \o h[4] \o h[5] \o h[6] \o h[7] \o h[8]

\* encoding/base64 URLEncoding: the alphabet, character i for the value i-1.
encodeURL ==
    << "A", "B", "C", "D", "E", "F", "G", "H", "I", "J", "K", "L", "M", "N",
       "O", "P", "Q", "R", "S", "T", "U", "V", "W", "X", "Y", "Z", "a", "b",
       "c", "d", "e", "f", "g", "h", "i", "j", "k", "l", "m", "n", "o", "p",
       "q", "r", "s", "t", "u", "v", "w", "x", "y", "z", "0", "1", "2", "3",
       "4", "5", "6", "7", "8", "9", "-", "_" >>

\* base64.URLEncoding.WithPadding(base64.NoPadding).EncodeToString: the bits
\* in groups of six, the last group filled with zero bits, no "=" appended.
EncodeToString(bits) ==
    LET n == (Len(bits) + 5) \div 6
        padded == bits \o [i \in 1..(6 * n - Len(bits)) |-> 0]
    IN  [i \in 1..n |->
           encodeURL[BitsValue(SubSeq(padded, 6 * i - 5, 6 * i)) + 1]] \o <<>>

\* []byte(s) of a string of printable ASCII characters.
BytesOf(s) == [i \in 1..Len(s) |-> Ord(s[i])] \o <<>>

\* Mutant of generateCodeChallenge: the empty verifier hashed like any other.
generateCodeChallengeUnchecked(codeVerifier) ==
    [s |-> EncodeToString(Sum256(BytesOf(codeVerifier))), err |-> FALSE]

\* main.go:114-120  generateCodeChallenge(codeVerifier) -> (string, error)
generateCodeChallenge(codeVerifier) ==
    IF codeVerifier = <<>>
    THEN [s |-> <<>>, err |-> TRUE]
    ELSE [s |-> EncodeToString(Sum256(BytesOf(codeVerifier))), err |-> FALSE]

\* ------------------------------------------------- activities, documents
\* One entry of data.Activities (data/data.go:7-24), the fields main.go reads:
\* ActivityParentName, Duration (ms), Distance (here in metres, the value of
\* Distance*1000.0), Calories, LogID.
Activity(name, duration, distance, calories, logId) ==
    [name |-> name, duration |-> duration, distance |-> distance,
     calories |-> calories, logId |-> logId]
NoActivity == Activity("-", 0, 0, 0, 0)

\* The Creator element of a Fitbit export: a device without a Name.
CreatorElement ==
    Elem("Creator", << Attr("xsi:type", Str("Device_t")) >>, Str(""),
         << Leaf("UnitId", Str("0")), Leaf("ProductID", Str("0")) >>)

\* A TrainingCenterDatabase/Activities/Activity document: the Activity has the
\* Sport attribute, the Id with text idText, the laps given and, optionally,
\* the Creator.
TcxDoc(idText, laps, hasCreator) ==
    Elem("", <<>>, Str(""),
      << Elem("TrainingCenterDatabase", <<>>, Str(""),
           << Elem("Activities", <<>>, Str(""),
                << Elem("Activity", << Attr("Sport", Str("Other")) >>, Str(""),
                        << Leaf("Id", idText) >> \o laps \o
                        (IF hasCreator THEN << CreatorElement >> ELSE <<>>))
                >>) >>) >>)
NoDoc == Elem("-", <<>>, Str(""), <<>>)

\* The arguments of one injectActivityTcx call (main.go:385).
TcxArgs(xmlDoc, actName, totalTime, distMeters, calories) ==
    [doc |-> xmlDoc, actName |-> actName, totalTime |-> totalTime,
     distMeters |-> distMeters, calories |-> calories]
NoTcxIn == TcxArgs(NoDoc, "-", 0, Num(0, 0), Num(0, 0))

\* What the upstream API answers in a run of the handshake.
ProtoActivities ==
    { Activity("Swim", 60500, 1000, 300, 1),
      Activity("Run", 600000, 2000, 120, 2),
      Activity("Swim", 999, 25, 3, 3) }
ProtoDocs ==
    { TcxDoc(Ts(0, 10, 0, 0, 0, FALSE, 120), <<>>, TRUE),
      TcxDoc(Ts(0, 10, 0, 0, 0, FALSE, 120), <<>>, FALSE) }

\* A GET request as the handlers build it: the URL and the Authorization
\* header (main.go:260-264, 359-363); none built.
Request(url, authorization) == [url |-> url, hdr |-> authorization]
NoRequest == Request(<<>>, <<>>)

\* No helper function called alone, nothing returned.
NoCall ==
    [fn |-> "-", s |-> <<>>, n |-> 0, ts |-> Str(""),
     cfg |-> OauthCfg(<<>>, <<>>, <<>>, <<>>), rnd |-> RandSource(0, 0, -1),
     file |-> NoFile, tok |-> <<>>, arg |-> <<>>]
NoRet ==
    [s |-> <<>>, err |-> FALSE, calls |-> 0, drawn |-> 0, all |-> <<>>,
     cfg |-> NilCfg, why |-> "", list |-> NoRequest, tcx |-> NoRequest]

NoReq == [path |-> "-", token |-> "", state |-> ""]
NoPre == [token |-> "", stateRedir |-> "", stateAuth |-> ""]

\* The process as the Go runtime starts it: the package variables hold their
\* zero values, done is an empty unbuffered channel, no goroutine but main.
InitProcess ==
    /\ proc = "running"
    /\ mainPc = "readCred"
    /\ server = "nil"
    /\ listener = "off"
    /\ lsPc = "none"
    /\ stateAuth = ""
    /\ stateRedir = ""
    /\ token = ""
    /\ hpc = [h \in Handlers |-> "new"]
    /\ req = [h \in Handlers |-> NoReq]
    /\ pre = NoPre
    /\ resp = [h \in Handlers |-> <<>>]
    /\ bearer = [h \in Handlers |-> <<"-", "-">>]
    /\ sd = [h \in Handlers |-> "none"]
    /\ act = [h \in Handlers |-> NoActivity]
    /\ doc = [h \in Handlers |-> NoDoc]
    /\ nShutdown = 0
    /\ nSent = 0
    /\ saved = <<>>

Init ==
    /\ InitProcess
    /\ argc \in ArgCounts
    /\ dateArg \in (CASE argc = 1 -> {"-"}
                       [] argc = 2 -> DateArgs
                       [] OTHER -> {"2024-08-11"})
    /\ tcxIn = NoTcxIn
    /\ tcxDoc = NoDoc
    /\ tcxRuns = 0
    /\ tcxPanic = FALSE
    /\ fnCall = NoCall
    /\ fnRet = NoRet

Running == proc = "running"

\* ---------------------------------------------------------------- main()
\* main.go:46-50  os.Open + readCredFile; handleError panics on an error.
MainReadCred ==
    /\ Running /\ mainPc = "readCred"
    /\ \E ok \in BOOLEAN :
         IF ok THEN mainPc' = "genVerifier" /\ proc' = proc
               ELSE mainPc' = mainPc /\ proc' = "panic"
    /\ UNCHANGED <<argc, dateArg, server, listener, lsPc, stateAuth, stateRedir, token,
                   handlerVars, sdVars, outVars>>

\* Mutant of MainGenVerifier: the error of generateCodeVerifier is handled
\* only after the authorization URL was built.
MainGenVerifierPanicLater ==
    /\ Running /\ mainPc = "genVerifier"
    /\ \E ok \in BOOLEAN :
         IF ok THEN mainPc' = "genChallenge" /\ proc' = proc
                    /\ stateAuth' = stateAuth
               ELSE mainPc' = mainPc /\ proc' = "panic"
                    /\ \E s \in RandomStates : stateAuth' = s
    /\ UNCHANGED <<argc, dateArg, server, listener, lsPc, stateRedir, token,
                   handlerVars, sdVars, outVars>>

\* main.go:51-52  generateCodeVerifier(43); fails only when crypto/rand fails.
MainGenVerifier ==
    /\ Running /\ mainPc = "genVerifier"
    /\ \E ok \in BOOLEAN :
         IF ok THEN mainPc' = "genChallenge" /\ proc' = proc
               ELSE mainPc' = mainPc /\ proc' = "panic"
    /\ UNCHANGED <<argc, dateArg, server, listener, lsPc, stateAuth, stateRedir, token,
                   handlerVars, sdVars, outVars>>

\* main.go:53-59  generateCodeChallenge of a 43-character verifier (never
\* empty, so never an error), the two http.HandleFunc registrations and the
\* construction of the http.Server.
MainGenChallenge ==
    /\ Running /\ mainPc = "genChallenge"
    /\ mainPc' = "getAuthURL"
    /\ server' = "created"
    /\ UNCHANGED <<proc, argc, dateArg, listener, lsPc, stateAuth, stateRedir, token,
                   handlerVars, sdVars, outVars>>

\* Mutant of MainGetAuthURL: main goes on to start the listener without
\* opening the browser.
MainGetAuthURLSkipBrowser ==
    /\ Running /\ mainPc = "getAuthURL"
    /\ \/ /\ \E s \in RandomStates : stateAuth' = s
          /\ mainPc' = "startListener"
          /\ proc' = proc
       \/ /\ proc' = "panic"
          /\ UNCHANGED <<stateAuth, mainPc>>
    /\ UNCHANGED <<argc, dateArg, server, listener, lsPc, stateRedir, token,
                   handlerVars, sdVars, outVars>>

\* main.go:62  getAuthURL -> generateRandomString (main.go:153-167) stores the
\* fresh correlation value in stateAuth; it panics when crypto/rand fails.
MainGetAuthURL ==
    /\ Running /\ mainPc = "getAuthURL"
    /\ \/ /\ \E s \in RandomStates : stateAuth' = s
          /\ mainPc' = "openBrowser"
          /\ proc' = proc
       \/ /\ proc' = "panic"
          /\ UNCHANGED <<stateAuth, mainPc>>
    /\ UNCHANGED <<argc, dateArg, server, listener, lsPc, stateRedir, token,
                   handlerVars, sdVars, outVars>>

\* main.go:65-68  openBrowser; log.Fatalf when the launch fails.
MainOpenBrowser ==
    /\ Running /\ mainPc = "openBrowser"
    /\ \E ok \in BOOLEAN :
         IF ok THEN mainPc' = "startListener" /\ proc' = proc
               ELSE mainPc' = mainPc /\ proc' = "fatal"
    /\ UNCHANGED <<argc, dateArg, server, listener, lsPc, stateAuth, stateRedir, token,
                   handlerVars, sdVars, outVars>>

\* main.go:70-74  go func() { server.ListenAndServe() ... }()
MainStartListener ==
    /\ Running /\ mainPc = "startListener"
    /\ mainPc' = "waitDone"
    /\ lsPc' = "spawned"
    /\ UNCHANGED <<proc, argc, dateArg, server, listener, stateAuth, stateRedir, token,
                   handlerVars, sdVars, outVars>>

\* main.go:78-79  after the receive: print and return; the process ends.
MainReturn ==
    /\ Running /\ mainPc = "received"
    /\ mainPc' = "returned"
    /\ proc' = "exited"
    /\ UNCHANGED <<argc, dateArg, server, listener, lsPc, stateAuth, stateRedir, token,
                   handlerVars, sdVars, outVars>>

\* ------------------------------------------- goroutine of main.go:70-74
\* server.ListenAndServe binds :8080 and serves; a bind failure is returned
\* at once and is not ErrServerClosed, so log.Fatalf ends the process.
ListenAndServe ==
    /\ Running /\ lsPc = "spawned"
    /\ \E ok \in BOOLEAN :
         IF ok THEN lsPc' = "serving" /\ listener' = "serving" /\ proc' = proc
               ELSE lsPc' = lsPc /\ listener' = listener /\ proc' = "fatal"
    /\ UNCHANGED <<mainPc, argc, dateArg, server, stateAuth, stateRedir, token,
                   handlerVars, sdVars, outVars>>

\* After Shutdown has closed the listener ListenAndServe returns
\* ErrServerClosed: the condition of main.go:71 is false and the goroutine ends.
ListenAndServeReturn ==
    /\ Running /\ lsPc = "serving" /\ listener = "shutdown"
    /\ lsPc' = "returned"
    /\ UNCHANGED <<proc, mainPc, argc, dateArg, server, listener, stateAuth, stateRedir,
                   token, handlerVars, sdVars, outVars>>

\* -------------------------------------------------- the request handlers
\* The bodies the handlers write (main.go:231, 240, 242, 245, 248).
BridgePage == "<html>...</html>"
TokenReceived == "Token received and printed to the server console."
StateMatched == "State matches with the one sent in auth URL."
NotOriginated == "The redirect request not originated from this app."
NoTokenReceived == "No token received."

InResp(h, body) == \E i \in 1..Len(resp[h]) : resp[h][i] = body
\* Handler h took the branch of main.go:242-243 and called fetchActivityData.
Accepted(h) == InResp(h, StateMatched)
\* Handler h took the branch of main.go:245.
Rejected(h) == InResp(h, NotOriginated)

\* A handler invocation is in flight from the moment net/http dispatches the
\* request until the handler function returns (or panics).
InFlight(h) == hpc[h] \notin {"new", "done", "panicked"}

\* net/http accepts a connection and dispatches the request to the handler
\* registered for its path (main.go:56-57), in a goroutine of its own: the
\* bridge page of "/callback" (which reads no query parameter) or
\* "/token-received" with its token and state parameters.  The requests are
\* numbered in the order in which they are dispatched.
Dispatch(h) ==
    /\ Running /\ listener = "serving"
    /\ hpc[h] = "new"
    /\ \A k \in Handlers : k < h => hpc[k] # "new"
    /\ \/ /\ req' = [req EXCEPT ![h] = [path |-> "/callback", token |-> "",
                                          state |-> ""]]
          /\ hpc' = [hpc EXCEPT ![h] = "callback"]
       \/ \E t \in ReqTokens, s \in ReqStates :
          /\ req' = [req EXCEPT ![h] = [path |-> "/token-received",
                                        token |-> t, state |-> s]]
          /\ hpc' = [hpc EXCEPT ![h] = "L236"]
    /\ UNCHANGED <<proc, mainPc, argc, dateArg, server, listener, lsPc, stateAuth,
                   stateRedir, token, resp, bearer, act, doc, sdVars, outVars>>

\* A request dispatched while other handlers may be in flight.
ServeRequest(h) == Dispatch(h) /\ UNCHANGED pre

\* main.go:204-232  handleOAuth2Callback writes the bridge page and returns.
handleOAuth2Callback(h) ==
    /\ Running /\ hpc[h] = "callback"
    /\ hpc' = [hpc EXCEPT ![h] = "done"]
    /\ resp' = [resp EXCEPT ![h] = Append(@, BridgePage)]
    /\ UNCHANGED <<proc, mainPc, argc, dateArg, server, listener, lsPc, stateAuth,
                   stateRedir, token, req, pre, bearer, act, doc,
                   sdVars, outVars>>

\* main.go:236  token = r.URL.Query().Get("token")
StoreToken(h) ==
    /\ Running /\ hpc[h] = "L236"
    /\ token' = req[h].token
    /\ hpc' = [hpc EXCEPT ![h] = "L237"]
    /\ UNCHANGED <<proc, mainPc, argc, dateArg, server, listener, lsPc, stateAuth,
                   stateRedir, req, pre, resp, bearer, act, doc,
                   sdVars, outVars>>

\* main.go:237  stateRedir = r.URL.Query().Get("state")
StoreState(h) ==
    /\ Running /\ hpc[h] = "L237"
    /\ stateRedir' = req[h].state
    /\ hpc' = [hpc EXCEPT ![h] = "L238"]
    /\ UNCHANGED <<proc, mainPc, argc, dateArg, server, listener, lsPc, stateAuth,
                   token, req, pre, resp, bearer, act, doc,
                   sdVars, outVars>>

\* main.go:238-240, 247-249  if token != "" the handler answers that the
\* token was received and goes on to the state; else "No token received."
TokenPresent == token # ""
CheckToken(h) ==
    /\ Running /\ hpc[h] = "L238"
    /\ IF TokenPresent
       THEN /\ resp' = [resp EXCEPT ![h] = Append(@, TokenReceived)]
            /\ hpc' = [hpc EXCEPT ![h] = "L241"]
       ELSE /\ resp' = [resp EXCEPT ![h] = Append(@, NoTokenReceived)]
            /\ hpc' = [hpc EXCEPT ![h] = "return"]
    /\ UNCHANGED <<proc, mainPc, argc, dateArg, server, listener, lsPc, stateAuth,
                   stateRedir, token, req, pre, bearer, act, doc,
                   sdVars, outVars>>

\* Mutant of StateMatches: the comparison left out, every state accepted.
StateMatchesAlways == TRUE
\* main.go:241  if strings.Compare(stateAuth, stateRedir) == 0
StateMatches == stateAuth = stateRedir
\* main.go:241-246  on a match the handler calls fetchActivityData(os.Args),
\* otherwise it answers that the request did not originate from this app.
CompareState(h) ==
    /\ Running /\ hpc[h] = "L241"
    /\ IF StateMatches
       THEN /\ resp' = [resp EXCEPT ![h] = Append(@, StateMatched)]
            /\ hpc' = [hpc EXCEPT ![h] = "fetchList"]
       ELSE /\ resp' = [resp EXCEPT ![h] = Append(@, NotOriginated)]
            /\ hpc' = [hpc EXCEPT ![h] = "return"]
    /\ UNCHANGED <<proc, mainPc, argc, dateArg, server, listener, lsPc, stateAuth,
                   stateRedir, token, req, pre, bearer, act, doc,
                   sdVars, outVars>>

\* http.NewRequest fails when the URL does not parse.
NewRequestError(arg) == arg = "%zz"

\* main.go:253-264, 331-335  fetchActivityData up to the request it builds:
\* with any number of arguments but one, log.Fatalf; with a date with which
\* the URL does not parse, log.Fatalf (main.go:262); otherwise the request
\* for the activity list gets the header "Bearer "+token.
fetchActivityData(h) ==
    /\ Running /\ hpc[h] = "fetchList"
    /\ IF argc # 2 \/ NewRequestError(dateArg)
       THEN /\ proc' = "fatal"
            /\ UNCHANGED <<hpc, bearer>>
       ELSE /\ bearer' = [bearer EXCEPT ![h][1] = token]
            /\ hpc' = [hpc EXCEPT ![h] = "L267"]
            /\ proc' = proc
    /\ UNCHANGED <<mainPc, argc, dateArg, server, listener, lsPc, stateAuth,
                   stateRedir, token, req, pre, resp, act, doc,
                   sdVars, outVars>>

\* main.go:267-291  client.Do and the reading of the answer: a transport
\* failure or a payload that does not unmarshal is fatal; a payload
\* json.Indent rejects makes fetchActivityData return.
FetchActivityList(h) ==
    /\ Running /\ hpc[h] = "L267"
    /\ \E outcome \in {"ok", "fatal", "indentError"} :
         /\ proc' = IF outcome = "fatal" THEN "fatal" ELSE proc
         /\ hpc' = [hpc EXCEPT ![h] =
                      CASE outcome = "ok" -> "prompt"
                        [] outcome = "indentError" -> "return"
                        [] OTHER -> @]
    /\ UNCHANGED <<mainPc, argc, dateArg, server, listener, lsPc, stateAuth,
                   stateRedir, token, req, pre, resp, bearer, act, doc,
                   sdVars, outVars>>

\* main.go:304-320  the prompt: a read error is fatal, a choice that is no
\* index of the list makes fetchActivityData return, a valid choice selects
\* one activity of the list.
Prompt(h) ==
    /\ Running /\ hpc[h] = "prompt"
    /\ \/ /\ proc' = "fatal"
          /\ UNCHANGED <<hpc, act>>
       \/ /\ hpc' = [hpc EXCEPT ![h] = "return"]
          /\ UNCHANGED <<proc, act>>
       \/ /\ \E a \in ProtoActivities : act' = [act EXCEPT ![h] = a]
          /\ hpc' = [hpc EXCEPT ![h] = "getTcx"]
          /\ proc' = proc
    /\ UNCHANGED <<mainPc, argc, dateArg, server, listener, lsPc, stateAuth,
                   stateRedir, token, req, pre, resp, bearer, doc,
                   sdVars, outVars>>

\* main.go:357-363  getActivityTcx up to the request it builds (the URL of a
\* decimal number always parses): the header is "Bearer "+token.
getActivityTcxRequest(h) ==
    /\ Running /\ hpc[h] = "getTcx"
    /\ bearer' = [bearer EXCEPT ![h][2] = token]
    /\ hpc' = [hpc EXCEPT ![h] = "L366"]
    /\ UNCHANGED <<proc, mainPc, argc, dateArg, server, listener, lsPc,
                   stateAuth, stateRedir, token, req, pre, resp, act, doc,
                   sdVars, outVars>>

\* main.go:366-381  client.Do, the reading of the answer and the parsing of
\* the export: a transport failure or an unparsable body is fatal.
getActivityTcx(h) ==
    /\ Running /\ hpc[h] = "L366"
    /\ \/ /\ proc' = "fatal"
          /\ UNCHANGED <<hpc, doc>>
       \/ /\ \E d \in ProtoDocs : doc' = [doc EXCEPT ![h] = d]
          /\ hpc' = [hpc EXCEPT ![h] = "inject"]
          /\ proc' = proc
    /\ UNCHANGED <<mainPc, argc, dateArg, server, listener, lsPc, stateAuth,
                   stateRedir, token, req, pre, resp, bearer, act,
                   sdVars, outVars>>

\* Mutant of TotalTimeOf: the duration passed on in milliseconds as it is.
TotalTimeOfMilliseconds(a) == a.duration

\* Go's integer division truncates toward zero.
Quo(a, b) == IF a >= 0 THEN a \div b ELSE -((-a) \div b)

\* main.go:327-328  the arguments fetchActivityData passes to
\* injectActivityTcx: whole seconds of the duration, metres, calories.
TotalTimeOf(a) == Quo(a.duration, 1000) * MsPerSecond

\* The file handed to saveToFile: the category and log id its name is made
\* of (main.go:320) and the document that was serialized.
SavedFile(name, logId, xmlDoc) == [name |-> name, logId |-> logId, doc |-> xmlDoc]

\* main.go:385-448  injectActivityTcx up to the call of saveToFile.  The
\* document the handler holds is edited in place; a nil dereference panics,
\* and net/http recovers the panic of a handler goroutine (the request ends,
\* the process goes on).  Otherwise the document is indented and serialized
\* (a failure is fatal, main.go:445) and handed to saveToFile.
Inject(h) ==
    /\ Running /\ hpc[h] = "inject"
    /\ LET r == injectActivityTcx(doc[h], act[h].name, TotalTimeOf(act[h]),
                                  Num(act[h].distance, 0), Num(act[h].calories, 0))
       IN  IF r.panic
           THEN /\ hpc' = [hpc EXCEPT ![h] = "panicked"]
                /\ act' = [act EXCEPT ![h] = NoActivity]
                /\ doc' = [doc EXCEPT ![h] = NoDoc]
                /\ UNCHANGED <<proc, saved>>
           ELSE /\ doc' = [doc EXCEPT ![h] = Indent(r.doc)]
                /\ act' = act
                /\ \/ /\ proc' = "fatal"
                      /\ UNCHANGED <<hpc, saved>>
                   \/ /\ saved' = Append(saved, SavedFile(act[h].name,
                                                         act[h].logId,
                                                         Indent(r.doc)))
                      /\ hpc' = [hpc EXCEPT ![h] = "saveToFile"]
                      /\ proc' = proc
    /\ UNCHANGED <<mainPc, argc, dateArg, server, listener, lsPc, stateAuth,
                   stateRedir, token, req, pre, resp, bearer,
                   sdVars, tcxVars, fnVars>>

\* main.go:340-353  saveToFile: a directory that cannot be made or a file
\* that cannot be written is fatal.
saveToFile(h) ==
    /\ Running /\ hpc[h] = "saveToFile"
    /\ \E ok \in BOOLEAN :
         IF ok THEN hpc' = [hpc EXCEPT ![h] = "L450"] /\ proc' = proc
               ELSE hpc' = hpc /\ proc' = "fatal"
    /\ UNCHANGED <<mainPc, argc, dateArg, server, listener, lsPc, stateAuth,
                   stateRedir, token, req, pre, resp, bearer, act, doc,
                   sdVars, outVars>>

\* main.go:450-456  the go statement: the goroutine that shuts the server
\* down is started, and injectActivityTcx and fetchActivityData return.
SpawnShutdown(h) ==
    /\ Running /\ hpc[h] = "L450"
    /\ sd' = [sd EXCEPT ![h] = "spawned"]
    /\ hpc' = [hpc EXCEPT ![h] = "return"]
    /\ UNCHANGED <<proc, mainPc, argc, dateArg, server, listener, lsPc,
                   stateAuth, stateRedir, token, req, pre, resp, bearer,
                   act, doc, nShutdown, nSent, outVars>>

\* Mutant of HandlerReturn: server.Shutdown called by the handler itself
\* rather than by a goroutine, so the handler returns only after Shutdown.
HandlerReturnAfterShutdown(h) ==
    /\ Running /\ hpc[h] = "return"
    /\ sd[h] \notin {"spawned", "inShutdown"}
    /\ hpc' = [hpc EXCEPT ![h] = "done"]
    /\ act' = [act EXCEPT ![h] = NoActivity]
    /\ doc' = [doc EXCEPT ![h] = NoDoc]
    /\ UNCHANGED <<proc, mainPc, argc, dateArg, server, listener, lsPc, stateAuth,
                   stateRedir, token, req, pre, resp, bearer,
                   sdVars, outVars>>

\* The handler function handleTokenReceived returns (main.go:250); the locals
\* of fetchActivityData (chosenActivity, xml) are gone with it.
HandlerReturn(h) ==
    /\ Running /\ hpc[h] = "return"
    /\ hpc' = [hpc EXCEPT ![h] = "done"]
    /\ act' = [act EXCEPT ![h] = NoActivity]
    /\ doc' = [doc EXCEPT ![h] = NoDoc]
    /\ UNCHANGED <<proc, mainPc, argc, dateArg, server, listener, lsPc, stateAuth,
                   stateRedir, token, req, pre, resp, bearer,
                   sdVars, outVars>>

\* ------------------------------------------ goroutine of main.go:450-455
\* server.Shutdown(context.Background()) closes the listener at once; from
\* then on no new request is dispatched.
ShutdownCall(h) ==
    /\ Running /\ sd[h] = "spawned"
    /\ sd' = [sd EXCEPT ![h] = "inShutdown"]
    /\ listener' = "shutdown"
    /\ nShutdown' = nShutdown + 1
    /\ UNCHANGED <<proc, mainPc, argc, dateArg, server, lsPc, stateAuth, stateRedir,
                   token, handlerVars, nSent, outVars>>

\* main.go:451-453  Shutdown returns once no handler is in flight any more:
\* nil, or the error of closing the listener, and then log.Fatalf.
ShutdownReturn(h) ==
    /\ Running /\ sd[h] = "inShutdown"
    /\ \A k \in Handlers : ~InFlight(k)
    /\ \E ok \in BOOLEAN :
         IF ok THEN sd' = [sd EXCEPT ![h] = "sending"] /\ proc' = proc
               ELSE sd' = sd /\ proc' = "fatal"
    /\ UNCHANGED <<mainPc, argc, dateArg, server, listener, lsPc, stateAuth,
                   stateRedir, token, handlerVars, nShutdown, nSent, outVars>>

\* Mutant of DoneSend: the signal sent before Shutdown has returned.
DoneSendBeforeShutdownReturn(h) ==
    /\ Running /\ sd[h] = "inShutdown" /\ mainPc = "waitDone"
    /\ sd' = [sd EXCEPT ![h] = "sent"]
    /\ mainPc' = "received"
    /\ nSent' = nSent + 1
    /\ UNCHANGED <<proc, argc, dateArg, server, listener, lsPc, stateAuth, stateRedir,
                   token, handlerVars, nShutdown, outVars>>

\* main.go:454 and main.go:77  done <- true meets <-done: done is unbuffered,
\* so the send completes only together with the receive of main.
DoneSend(h) ==
    /\ Running /\ sd[h] = "sending" /\ mainPc = "waitDone"
    /\ sd' = [sd EXCEPT ![h] = "sent"]
    /\ mainPc' = "received"
    /\ nSent' = nSent + 1
    /\ UNCHANGED <<proc, argc, dateArg, server, listener, lsPc, stateAuth, stateRedir,
                   token, handlerVars, nShutdown, outVars>>

\* --------------------------------------------------------- specifications
MainStep ==
    \/ MainReadCred \/ MainGenVerifier \/ MainGenChallenge \/ MainGetAuthURL
    \/ MainOpenBrowser \/ MainStartListener \/ MainReturn
    \/ ListenAndServe \/ ListenAndServeReturn

HandlerStep(h) ==
    \/ handleOAuth2Callback(h) \/ StoreToken(h) \/ StoreState(h)
    \/ CheckToken(h) \/ CompareState(h) \/ fetchActivityData(h)
    \/ FetchActivityList(h) \/ Prompt(h) \/ getActivityTcxRequest(h)
    \/ getActivityTcx(h) \/ Inject(h) \/ saveToFile(h) \/ SpawnShutdown(h)
    \/ HandlerReturn(h)

ShutdownStep(h) == ShutdownCall(h) \/ ShutdownReturn(h) \/ DoneSend(h)

\* Any interleaving of main, the listener, the handlers and the goroutines.
Next ==
    \/ MainStep
    \/ \E h \in Handlers : ServeRequest(h)
    \/ \E h \in Handlers : HandlerStep(h)
    \/ \E h \in Handlers : ShutdownStep(h)

Spec == Init /\ [][Next]_vars

\* The requests handled one at a time: a request is dispatched only when no
\* handler is in flight.
\* handler is in flight; pre records the session state the request finds.
ServeRequestAlone(h) ==
    /\ \A k \in Handlers : ~InFlight(k)
    /\ Dispatch(h)
    /\ pre' = [token |-> token, stateRedir |-> stateRedir,
               stateAuth |-> stateAuth]

NextSeq ==
    \/ MainStep
    \/ \E h \in Handlers : ServeRequestAlone(h)
    \/ \E h \in Handlers : HandlerStep(h)
    \/ \E h \in Handlers : ShutdownStep(h)

SpecSeq == Init /\ [][NextSeq]_vars

\* The Go scheduler runs every runnable goroutine: a step that waits for
\* nothing outside the process (no network, no terminal, no file) is taken
\* eventually.  Nothing is assumed of the requests that arrive, of the
\* upstream API or of the user at the prompt.
Fairness ==
    /\ WF_vars(MainReturn)
    /\ WF_vars(ListenAndServeReturn)
    /\ \A h \in Handlers :
         /\ WF_vars(handleOAuth2Callback(h))
         /\ WF_vars(StoreToken(h))
         /\ WF_vars(StoreState(h))
         /\ WF_vars(CheckToken(h))
         /\ WF_vars(CompareState(h))
         /\ WF_vars(HandlerReturn(h))
         /\ WF_vars(ShutdownCall(h))
         /\ WF_vars(ShutdownReturn(h))
         /\ WF_vars(DoneSend(h))

SpecFair == Init /\ [][Next]_vars /\ Fairness

SpecSeqFair == Init /\ [][NextSeq]_vars /\ Fairness

\* ------------------------------------- injectActivityTcx checked on its own
\* The Id texts: RFC 3339 timestamps at the first and the last minute of the
\* day, with the seconds 0, 59 and 60, with and without fractional seconds,
\* with the offset Z, +00:00, +02:00 and -05:30, and two texts that are no
\* timestamp (the empty string and the layout string of the repository's
\* test).
IdTimestamps ==
    { Ts(1, hm[1], hm[2], sec, f, zo[1], zo[2]) :
        hm \in {<<0, 0>>, <<23, 59>>}, sec \in {0, 59, 60},
        f \in {0, 500},
        zo \in {<<TRUE, 0>>, <<FALSE, 0>>, <<FALSE, 120>>, <<FALSE, -330>>} }
\* Timestamps whose numeric offset has an hour field of 24 or more or a
\* minute field of 60 or more: +24:00, -24:00, +23:60, +24:60, +25:00, +00:61.
IdOffsetEnds ==
    { TsOffset(1, 10, 0, 0, 0, 1, 24, 0), TsOffset(1, 10, 0, 0, 0, -1, 24, 0),
      TsOffset(1, 10, 0, 0, 0, 1, 23, 60), TsOffset(1, 10, 0, 0, 0, 1, 24, 60),
      TsOffset(1, 10, 0, 0, 0, 1, 25, 0), TsOffset(1, 10, 0, 0, 0, 1, 0, 61) }
IdTexts ==
    IdTimestamps \cup IdOffsetEnds
      \cup {Str(""), Str("2006-01-02T15:04:05Z07:00")}

\* A lap the export already holds.
ExistingLap ==
    Elem("Lap", << Attr("StartTime", Ts(1, 8, 0, 0, 0, TRUE, 0)) >>, Str(""),
         << Leaf("TotalTimeSeconds", Num(10, 0)) >>)

\* The text of the Id of a document TcxDoc built.
IdOfDoc(d) == d.kids[1].kids[1].kids[1].kids[1].text
TcxDocs ==
    { TcxDoc(id, laps, c) :
        id \in IdTexts, laps \in {<<>>, << ExistingLap >>}, c \in BOOLEAN }

ActNames == {"Swim", "Treadmill", "Weights", "Run", "swim"}
\* time.Duration values, in milliseconds.
TotalTimes == {0, 60000, 1500}
DistanceTexts == {Num(1000, 0), Num(1234, 500)}
CalorieTexts == {Num(300, 0)}
\* The documents of the calls for the categories that do not read the Id.
PlainIdTexts == {Ts(1, 0, 0, 0, 0, TRUE, 0), Str("")}
\* The calls: for "Swim" every document with every duration and with every
\* distance; for the other categories, whose branches read neither the Id
\* nor the other arguments, the documents with one timestamp and one text
\* that is none.
TcxCalls ==
    { TcxArgs(d, "Swim", t, Num(1000, 0), c) :
        d \in TcxDocs, t \in TotalTimes, c \in CalorieTexts }
    \cup
    { TcxArgs(d, "Swim", 60000, m, c) :
        d \in TcxDocs, m \in DistanceTexts, c \in CalorieTexts }
    \cup
    { TcxArgs(d, a, 60000, Num(1000, 0), c) :
        d \in {x \in TcxDocs : IdOfDoc(x) \in PlainIdTexts},
        a \in ActNames \ {"Swim"}, c \in CalorieTexts }

\* The calls are made while the process serves: main has built the server,
\* stored the correlation value, started the listener and waits on done; no
\* request has arrived.
InitTcx ==
    /\ proc = "running"
    /\ mainPc = "waitDone"
    /\ argc = 2
    /\ dateArg = "2024-08-11"
    /\ server = "created"
    /\ listener = "serving"
    /\ lsPc = "serving"
    /\ stateAuth = "s1"
    /\ stateRedir = ""
    /\ token = ""
    /\ hpc = [h \in Handlers |-> "new"]
    /\ req = [h \in Handlers |-> NoReq]
    /\ pre = NoPre
    /\ resp = [h \in Handlers |-> <<>>]
    /\ bearer = [h \in Handlers |-> <<"-", "-">>]
    /\ sd = [h \in Handlers |-> "none"]
    /\ act = [h \in Handlers |-> NoActivity]
    /\ doc = [h \in Handlers |-> NoDoc]
    /\ nShutdown = 0
    /\ nSent = 0
    /\ saved = <<>>
    /\ tcxIn \in TcxCalls
    /\ tcxDoc = tcxIn.doc
    /\ tcxRuns = 0
    /\ tcxPanic = FALSE
    /\ fnCall = NoCall
    /\ fnRet = NoRet

\* The k-th call injectActivityTcx(fName, tcxDoc, ...) on the document, up
\* to the call of saveToFile (main.go:385-448), made as in the program by
\* the handler goroutine of a request, here the k-th, once the call before
\* it has returned.  The document is edited in place; a nil pointer
\* dereferenced on the way is a panic, which net/http recovers for a handler
\* goroutine (the process goes on), and after which no further call is made.
\* Otherwise the document is indented and serialized (a failure is fatal,
\* main.go:445) and handed to saveToFile.  The call then goes on as every
\* handler does: saveToFile (main.go:340-353), the go statement (main.go:450)
\* and the return, each a step of its own.
TcxInject ==
    /\ Running /\ tcxRuns < MaxRuns /\ ~tcxPanic
    /\ tcxRuns + 1 \in Handlers
    /\ IF tcxRuns = 0 THEN TRUE ELSE hpc[tcxRuns] \in {"return", "done"}
    /\ LET k == tcxRuns + 1
           r == injectActivityTcx(tcxDoc, tcxIn.actName, tcxIn.totalTime,
                                  tcxIn.distMeters, tcxIn.calories)
           file == SavedFile(tcxIn.actName, 0, Indent(r.doc))
       IN  /\ tcxPanic' = r.panic
           /\ IF r.panic
              THEN /\ tcxDoc' = r.doc
                   /\ hpc' = [hpc EXCEPT ![k] = "panicked"]
                   /\ UNCHANGED <<proc, saved>>
              ELSE /\ tcxDoc' = Indent(r.doc)
                   /\ \/ /\ proc' = "fatal"
                         /\ UNCHANGED <<hpc, saved>>
                      \/ /\ saved' = Append(saved, file)
                         /\ hpc' = [hpc EXCEPT ![k] = "saveToFile"]
                         /\ UNCHANGED proc
    /\ tcxRuns' = tcxRuns + 1
    /\ UNCHANGED <<mainPc, argc, dateArg, server, listener, lsPc, stateAuth,
                   stateRedir, token, req, pre, resp, bearer, act, doc,
                   sdVars, tcxIn, fnVars>>

\* The calls, each going on through saveToFile and the go statement to its
\* return, the goroutines they start, and main, which returns once it is
\* signalled.
NextTcx ==
    \/ TcxInject
    \/ \E h \in Handlers : saveToFile(h)
    \/ \E h \in Handlers : SpawnShutdown(h)
    \/ \E h \in Handlers : HandlerReturn(h)
    \/ \E h \in Handlers : ShutdownStep(h)
    \/ ListenAndServeReturn
    \/ MainReturn

SpecTcx == InitTcx /\ [][NextTcx]_vars

\* ------------------------------------------ the helper functions on their own
\* A call of one helper function: which function, and its arguments (s: the
\* string argument, n: the integer or time.Duration argument, ts: the
\* timestamp text, cfg: the *oauth2.Config, rnd: what crypto/rand delivers,
\* file: the reader of readCredFile; for the requests that follow the
\* authorization URL, tok: the token the browser delivers, arg: os.Args[1],
\* n: the log id of the chosen activity).
Call(fn, s, n, ts, cfg, rnd) ==
    [fn |-> fn, s |-> s, n |-> n, ts |-> ts, cfg |-> cfg, rnd |-> rnd,
     file |-> NoFile, tok |-> <<>>, arg |-> <<>>]
NoCfg == OauthCfg(<<>>, <<>>, <<>>, <<>>)
NoRnd == RandSource(0, 0, -1)
\* The source rnd after n draws.
RandAfter(rnd, n) ==
    RandSource(rnd.seed + n * rnd.step, rnd.step,
               IF rnd.failAt < 0 THEN -1
               ELSE IF rnd.failAt > n THEN rnd.failAt - n ELSE 0)

\* crypto/rand.Reader: sources that deliver and differ in the numbers they
\* deliver (step 0: the same number at every draw), and sources that fail:
\* at the first draw, at the last draw of the shortest verifier, at the
\* first draw of a second call, and later.
RandFailures == {0, 42, 43, 100, 200}
RandSources ==
    { RandSource(a, b, -1) : a \in {0, 61, 65}, b \in {0, 1, 7} }
    \cup { RandSource(0, 1, f) : f \in RandFailures }

\* generateCodeVerifier: lengths at and around both limits.
VerifierLengths == {-1, 0, 1, 42, 43, 44, 100, 127, 128, 129, 200}

\* generateCodeChallenge: the empty verifier, the verifier of the
\* repository's test, a one-character one, and generated ones of the
\* shortest and the longest valid length.
CodeVerifiers ==
    { <<>>, << "t", "e", "s", "t", "v", "e", "r", "i", "f", "i", "e", "r" >>, << "a" >>,
      generateCodeVerifier(MinVerifierLength, RandSource(0, 1, -1)).s,
      generateCodeVerifier(MaxVerifierLength, RandSource(61, 7, -1)).s }

\* convertTimestamp: durations of whole seconds, positive, zero and negative.
AddSeconds == {0, 30000, -30000, 3600000}

\* scopeStringBuilder: every list of at most MaxScopes scopes, among them
\* the empty scope and a scope that ends in "+".
MaxScopes == 3
ScopeNames == { << "a" >>, << "b", "c" >>, <<>>, << "d", "+" >> }
ScopeLists == UNION { [1..n -> ScopeNames] : n \in 0..MaxScopes }

\* getAuthURL: client ids and redirect URLs without and with reserved
\* characters, empty ones included.
ClientIDs ==
    { <<>>, << "i", "d" >>, << "t", "e", "s", "t", "-", "c", "l", "i", "e", "n", "t", "-", "i", "d" >>, << "a", "&", "b" >>,
      << "a", "=", "b" >>, << "a", "#", "b" >>, << "a", "?", "b" >>,
      << "a", "+", "b" >> }
\* Client secrets: none, and one that is part of no other value.
ClientSecrets == { <<>>, << "S", "3", "C", "R", "3", "T" >> }
RedirectURLs ==
    { <<>>, << "c", "b" >>,
      << "h", "t", "t", "p", "s", ":", "/", "/", "t", "e", "s", "t", ".", "c", "o", "m", "/", "r", "e", "d", "i", "r", "e", "c", "t" >>,
      << "h", "t", "t", "p", ":", "/", "/", "h", "/", "c", "b", "?", "x", "=", "1", "&", "y", "=", "2" >>,
      << "h", "t", "t", "p", ":", "/", "/", "h", "/", "c", "b", "#", "f" >> }
CodeChallenges == { <<>>, << "t", "e", "s", "t", "C", "o", "d", "e", "C", "h", "a", "l", "l", "e", "n", "g", "e" >> }
CfgScopes == { <<>>, << << "a", "c", "t", "i", "v", "i", "t", "y" >> >>, << << "a", "c", "t", "i", "v", "i", "t", "y" >>, << "h", "e", "a", "r", "t", "r", "a", "t", "e" >> >> }
\* Sources that deliver, and sources that fail at the first draw, at the
\* last draw of the first call and at the first draw of the second call.
AuthRandFailures == {0, 31, 32}
AuthRandSources ==
    { RandSource(0, 1, -1), RandSource(61, 0, -1) }
    \cup { RandSource(0, 1, f) : f \in AuthRandFailures }
\* The requests that follow the authorization URL: the token as the package
\* variable holds it (one that is the client secret's text among them), the
\* date argument (one that is no URL escape among them) and the log ids.
TokenTexts == { <<>>, << "t", "1" >>, << "S", "3", "C", "R", "3", "T" >> }
DateTexts ==
    { << "2", "0", "2", "4", "-", "0", "8", "-", "1", "1" >>,
      << "%", "z", "z" >> }
LogIds == {0, 7, 1234567890, -5}

\* readCredFile: a reader that fails or delivers; texts that are no JSON,
\* null, an array, and objects in which each of the three members is absent,
\* empty, set, null or a number, written with another case, twice, or under
\* another key.
ClientIdMembers ==
    { <<>>,
      << Member(<< "c", "l", "i", "e", "n", "t", "I", "D" >>, JStr(<<>>)) >>,
      << Member(<< "c", "l", "i", "e", "n", "t", "I", "D" >>, JStr(<< "i", "d" >>)) >>,
      << Member(<< "c", "l", "i", "e", "n", "t", "i", "d" >>, JStr(<< "i", "d" >>)) >>,
      << Member(<< "C", "l", "i", "e", "n", "t", "I", "D" >>, JStr(<< "i", "d" >>)) >>,
      << Member(<< "c", "l", "i", "e", "n", "t", "I", "D" >>, JNull) >>,
      << Member(<< "c", "l", "i", "e", "n", "t", "I", "D" >>, JNum) >>,
      << Member(<< "c", "l", "i", "e", "n", "t", "I", "D" >>, JStr(<< "x" >>)),
         Member(<< "c", "l", "i", "e", "n", "t", "I", "D" >>, JStr(<< "i", "d" >>)) >>,
      << Member(<< "c", "l", "i", "e", "n", "t" >>, JStr(<< "i", "d" >>)) >> }
ClientSecretMembers ==
    { <<>>,
      << Member(<< "c", "l", "i", "e", "n", "t", "S", "e", "c", "r", "e", "t" >>, JStr(<<>>)) >>,
      << Member(<< "c", "l", "i", "e", "n", "t", "S", "e", "c", "r", "e", "t" >>, JStr(<< "s", "e", "c" >>)) >>,
      << Member(<< "C", "L", "I", "E", "N", "T", "S", "E", "C", "R", "E", "T" >>, JStr(<< "s", "e", "c" >>)) >>,
      << Member(<< "c", "l", "i", "e", "n", "t", LongS, "e", "c", "r", "e", "t" >>,
                JStr(<< "s", "e", "c" >>)) >> }
RedirectUrlMembers ==
    { <<>>,
      << Member(<< "r", "e", "d", "i", "r", "e", "c", "t", "U", "r", "l" >>, JStr(<<>>)) >>,
      << Member(<< "r", "e", "d", "i", "r", "e", "c", "t", "U", "r", "l" >>, JStr(<< "c", "b" >>)) >>,
      << Member(<< "R", "e", "d", "i", "r", "e", "c", "t", "U", "r", "l" >>, JStr(<< "c", "b" >>)) >>,
      << Member(<< "r", "e", "d", "i", "r", "e", "c", "t", "U", "r", "l" >>, JNum) >> }
CredTexts ==
    { <<"malformed", <<>> >>, <<"null", <<>> >>, <<"array", <<>> >> }
    \cup { <<"object", a \o b \o c>> :
             a \in ClientIdMembers, b \in ClientSecretMembers,
             c \in RedirectUrlMembers }
CredFiles == { CredFile(e, t[1], t[2]) : e \in BOOLEAN, t \in CredTexts }

FnCalls ==
    { [Call("readCredFile", <<>>, 0, Str(""), NoCfg, NoRnd)
         EXCEPT !.file = f] : f \in CredFiles }
    \cup
    { Call("generateCodeVerifier", <<>>, n, Str(""), NoCfg, r) :
        n \in VerifierLengths, r \in RandSources }
    \cup { Call("generateCodeChallenge", v, 0, Str(""), NoCfg, NoRnd) :
             v \in CodeVerifiers }
    \cup { Call("convertTimestamp", <<>>, d, t, NoCfg, NoRnd) :
             d \in AddSeconds, t \in IdTexts }
    \cup { Call("scopeStringBuilder", <<>>, 0, Str(""),
                OauthCfg(<<>>, <<>>, <<>>, l), NoRnd) : l \in ScopeLists }
    \cup { Call("getAuthURL", ch, 0, Str(""), OauthCfg(c, sec, u, l), r) :
             ch \in CodeChallenges, c \in ClientIDs, sec \in ClientSecrets,
             u \in RedirectURLs, l \in CfgScopes, r \in AuthRandSources }
    \cup { [Call("getAuthURL", <<>>, id, Str(""),
                  OauthCfg(<< "i", "d" >>, sec, << "c", "b" >>,
                           << << "a", "c", "t", "i", "v", "i", "t", "y" >> >>),
                  RandSource(0, 1, -1))
              EXCEPT !.tok = t, !.arg = d] :
             sec \in ClientSecrets, t \in TokenTexts, d \in DateTexts,
             id \in LogIds }

InitFn ==
    /\ InitProcess
    /\ argc = 2
    /\ dateArg = "2024-08-11"
    /\ tcxIn = NoTcxIn
    /\ tcxDoc = NoDoc
    /\ tcxRuns = 0
    /\ tcxPanic = FALSE
    /\ fnCall \in FnCalls
    /\ fnRet = NoRet

\* The function fnCall names may be called: the process runs and fewer than
\* MaxRuns calls were made.
MayCall(fn) == Running /\ fnCall.fn = fn /\ fnRet.calls < MaxRuns
\* What a call that returned r (fields s and err) after d draws leaves.
Returned(r, d) ==
    [s |-> r.s, err |-> r.err, calls |-> fnRet.calls + 1,
     drawn |-> fnRet.drawn + d, all |-> Append(fnRet.all, r.s),
     cfg |-> NilCfg, why |-> "", list |-> fnRet.list, tcx |-> fnRet.tcx]

CallGenerateCodeVerifier ==
    /\ MayCall("generateCodeVerifier")
    /\ LET r == generateCodeVerifier(fnCall.n, RandAfter(fnCall.rnd, fnRet.drawn))
       IN  fnRet' = Returned(r, Len(r.s))
    /\ UNCHANGED <<proc, mainPc, argc, dateArg, server, listener, lsPc, stateAuth,
                   stateRedir, token, handlerVars, sdVars, saved, tcxVars, fnCall>>

CallGenerateCodeChallenge ==
    /\ MayCall("generateCodeChallenge")
    /\ fnRet' = Returned(generateCodeChallenge(fnCall.s), 0)
    /\ UNCHANGED <<proc, mainPc, argc, dateArg, server, listener, lsPc, stateAuth,
                   stateRedir, token, handlerVars, sdVars, saved, tcxVars, fnCall>>

CallConvertTimestamp ==
    /\ MayCall("convertTimestamp")
    /\ fnRet' = Returned(convertTimestamp(fnCall.ts, fnCall.n), 0)
    /\ UNCHANGED <<proc, mainPc, argc, dateArg, server, listener, lsPc, stateAuth,
                   stateRedir, token, handlerVars, sdVars, saved, tcxVars, fnCall>>

CallScopeStringBuilder ==
    /\ MayCall("scopeStringBuilder")
    /\ fnRet' = Returned([s |-> scopeStringBuilder(fnCall.cfg.Scopes),
                          err |-> FALSE], 0)
    /\ UNCHANGED <<proc, mainPc, argc, dateArg, server, listener, lsPc, stateAuth,
                   stateRedir, token, handlerVars, sdVars, saved, tcxVars, fnCall>>

CallReadCredFile ==
    /\ MayCall("readCredFile")
    /\ LET r == readCredFile(fnCall.file)
       IN  fnRet' = [Returned([s |-> <<>>, err |-> r.why # ""], 0)
                       EXCEPT !.cfg = r.cfg, !.why = r.why]
    /\ UNCHANGED <<proc, mainPc, argc, dateArg, server, listener, lsPc, stateAuth,
                   stateRedir, token, handlerVars, sdVars, saved, tcxVars, fnCall>>

\* getAuthURL stores the correlation value in the package variable stateAuth;
\* the panic of generateRandomString ends the process.
CallGetAuthURL ==
    /\ MayCall("getAuthURL")
    /\ LET r == getAuthURL(fnCall.s, fnCall.cfg, RandAfter(fnCall.rnd, fnRet.drawn))
       IN  IF r.panic
           THEN proc' = "panic" /\ UNCHANGED <<stateAuth, fnRet>>
           ELSE /\ stateAuth' = r.stateAuth
                /\ fnRet' = Returned([s |-> r.url, err |-> FALSE], StateLength)
                /\ UNCHANGED proc
    /\ UNCHANGED <<mainPc, argc, dateArg, server, listener, lsPc,
                   stateRedir, token, handlerVars, sdVars, saved, tcxVars, fnCall>>

\* main.go:258-264  after the authorization URL was built, the handler of
\* the browser's request builds the request of the activity list, in the
\* process that holds the configuration fnCall.cfg: the URL from os.Args[1],
\* the header from the token; a URL http.NewRequest rejects is fatal
\* (main.go:260-262).
CallFetchActivityData ==
    /\ Running /\ fnCall.fn = "getAuthURL" /\ fnRet.calls >= 1 /\ argc = 2
    /\ fnRet.list = NoRequest
    /\ LET url == ActivityListURL(fnCall.arg)
       IN  IF BadEscape(url)
           THEN proc' = "fatal" /\ UNCHANGED fnRet
           ELSE /\ fnRet' = [fnRet EXCEPT
                               !.list = Request(url, BearerHeader(fnCall.tok))]
                /\ UNCHANGED proc
    /\ UNCHANGED <<mainPc, argc, dateArg, server, listener, lsPc, stateAuth,
                   stateRedir, token, handlerVars, sdVars, saved, tcxVars, fnCall>>

\* main.go:357-363  after the activity list, getActivityTcx builds the
\* request of the TCX: the URL from the log id, the header from the token.
CallGetActivityTcx ==
    /\ Running /\ fnCall.fn = "getAuthURL"
    /\ fnRet.list # NoRequest /\ fnRet.tcx = NoRequest
    /\ fnRet' = [fnRet EXCEPT
                   !.tcx = Request(ActivityTcxURL(fnCall.n),
                                   BearerHeader(fnCall.tok))]
    /\ UNCHANGED <<proc, mainPc, argc, dateArg, server, listener, lsPc, stateAuth,
                   stateRedir, token, handlerVars, sdVars, saved, tcxVars, fnCall>>

NextFn ==
    \/ CallReadCredFile
    \/ CallGenerateCodeVerifier
    \/ CallGenerateCodeChallenge
    \/ CallConvertTimestamp
    \/ CallScopeStringBuilder
    \/ CallGetAuthURL
    \/ CallFetchActivityData
    \/ CallGetActivityTcx

SpecFn == InitFn /\ [][NextFn]_vars

\* ================================================================= claims
\* Handler h has decided: it is past the comparison of main.go:241, or it
\* left handleTokenReceived at main.go:248 without reaching it.
Decided(h) ==
    /\ req[h].path = "/token-received"
    /\ hpc[h] \notin {"new", "L236", "L237", "L238", "L241"}
\* The request handler h serves carries a non-empty token and the state that
\* getAuthURL stored.
GoodRequest(h) ==
    /\ req[h].path = "/token-received"
    /\ req[h].token # ""
    /\ req[h].state = stateAuth
\* The request dispatched last.
Latest(h) ==
    /\ hpc[h] # "new"
    /\ \A k \in Handlers : k > h => hpc[k] = "new"
nAccepted == Cardinality({h \in Handlers : Accepted(h)})

\* C1: with the completion requests handled one at a time, fetchActivityData
\* is started for a request if and only if the request's token parameter is
\* non-empty and its state parameter equals stateAuth.
C1_AcceptedIffTokenAndState ==
    \A h \in Handlers : Decided(h) => (Accepted(h) <=> GoodRequest(h))

\* C1 witness: one request was accepted, and another, with a token but the
\* wrong state, was handled to the end without being accepted.
C1_Witness ==
    \E h, k \in Handlers :
        /\ Accepted(h) /\ GoodRequest(h)
        /\ hpc[k] = "done" /\ req[k].token # "" /\ req[k].state # stateAuth
        /\ ~Accepted(k)

\* C2: the signal is sent and Shutdown called only after a request with a
\* non-empty token and the state stateAuth was handled; with only bridge,
\* empty-token and mismatched-state requests there is no fetch, no Shutdown,
\* and main still waits in a running process.
C2_OnlyAfterGoodRequest ==
    (\A h \in Handlers : hpc[h] # "new" => ~GoodRequest(h))
    => /\ \A h \in Handlers : ~Accepted(h) /\ sd[h] = "none"
       /\ nShutdown = 0 /\ nSent = 0
       /\ (listener = "serving" => mainPc = "waitDone" /\ proc = "running")

\* C3: whatever the requests and their interleaving, Shutdown is initiated
\* once and the signal sent once; when the process ends no goroutine is left
\* before or in its send on done.
C3_ShutdownExactlyOnce ==
    /\ nShutdown <= 1
    /\ nSent <= 1
    /\ Cardinality({h \in Handlers : sd[h] # "none"}) <= 1
    /\ (proc = "exited" => nShutdown = 1 /\ nSent = 1)

\* C4: once an accepted request's fetchActivityData has returned (no fatal
\* exit), the shutdown of the listener has been started, so that main is
\* signalled and returns.
C4_ReturnedImpliesShutdown ==
    \A h \in Handlers :
        (Accepted(h) /\ hpc[h] = "done" /\ proc = "running")
        => \E k \in Handlers : sd[k] # "none"

\* C5: the bearer token of an accepted request's activity-list fetch and of
\* its activity-detail fetch is the token parameter of that request.
C5_BearerIsOwnToken ==
    \A h \in Handlers :
        /\ bearer[h][1] # "-" => bearer[h][1] = req[h].token
        /\ bearer[h][2] # "-" => bearer[h][2] = req[h].token

\* C6: when handler invocations overlap, a request whose state parameter
\* differs from stateAuth is never accepted and a request whose state
\* parameter equals stateAuth is never rejected.
C6_DecisionByOwnState ==
    \A h \in Handlers :
        /\ Accepted(h) => req[h].state = stateAuth
        /\ Rejected(h) => req[h].state # stateAuth

\* C7 as claimed: in a run with one accepted completion request, once its
\* shutdown goroutine is started the handler returns, Shutdown returns, main
\* receives the signal and the process exits.
C7_ShutdownCompletes ==
    \A h \in Handlers :
        (sd[h] = "spawned") ~> (proc = "exited" \/ nAccepted >= 2)

\* The goroutine of handler h ended the process: Shutdown returned an error
\* and log.Fatalf was called (main.go:451-453).
ShutdownFailed(h) == proc = "fatal" /\ sd[h] = "inShutdown"

\* C7 as amended: in a run with one accepted completion request, once its
\* shutdown goroutine is started nothing waits for ever: the handler returns
\* and Shutdown returns; then either main receives the signal and the process
\* exits, or Shutdown returned an error and the process was ended by
\* log.Fatalf with no handler in flight; the signal is never sent while a
\* handler is in flight.
C7_ShutdownCompletesOrFails ==
    /\ \A h \in Handlers :
         (sd[h] = "spawned")
           ~> ( \/ proc = "exited"
                \/ (ShutdownFailed(h) /\ \A k \in Handlers : ~InFlight(k))
                \/ nAccepted >= 2 )
    /\ [] ( (proc = "fatal" /\ nAccepted = 1
               /\ \E h \in Handlers : sd[h] # "none")
            => \E h \in Handlers : ShutdownFailed(h) )

\* C7 witness: the single accepted request's goroutine has sent on done and
\* the process has exited.
C7_Witness ==
    \E h \in Handlers :
        /\ sd[h] = "sent" /\ nAccepted = 1 /\ proc = "exited"
        /\ hpc[h] = "done" /\ lsPc = "returned"

\* C8: a completion request with an empty token leaves token, stateRedir and
\* stateAuth as it found them and triggers neither fetch nor shutdown.
C8_EmptyTokenLeavesState ==
    \A h \in Handlers :
        (Latest(h) /\ req[h].path = "/token-received" /\ req[h].token = ""
                   /\ hpc[h] \in {"return", "done"})
        => /\ token = pre.token
           /\ stateRedir = pre.stateRedir
           /\ stateAuth = pre.stateAuth
           /\ ~Accepted(h) /\ sd[h] = "none"

\* C9: a completion request with a non-empty token and a state that differs
\* from stateAuth leaves the stored access token as it found it.
C9_MismatchLeavesToken ==
    \A h \in Handlers :
        (Latest(h) /\ req[h].path = "/token-received" /\ req[h].token # ""
                   /\ req[h].state # stateAuth
                   /\ hpc[h] \in {"return", "done"})
        => token = pre.token

\* The element tree of a document: its elements with their attributes and
\* their text, without the white space between the elements.
RECURSIVE Elements(_)
Elements(e) ==
    [e EXCEPT !.text = IF @.kind = "ws" THEN Str("") ELSE @,
              !.kids = [i \in 1..Len(e.kids) |-> Elements(e.kids[i])]]

\* The Activity element of a TrainingCenterDatabase/Activities/Activity
\* document, its laps, and the text of a child element.
ActivityOf(d) == d.kids[1].kids[1].kids[1]
LapsOf(d) == SelectSeq(ActivityOf(d).kids, LAMBDA e : e.tag = "Lap")
TracksOf(lap) == SelectSeq(lap.kids, LAMBDA e : e.tag = "Track")
TextOf(e, tag) == e.kids[SelectElement(e, tag)].text
IdOf(d) == TextOf(ActivityOf(d), "Id")
HasCreator(d) == SelectElement(ActivityOf(d), "Creator") # 0
LastChild(e) == e.kids[Len(e.kids)]

\* The text t is an RFC 3339 timestamp in UTC (offset Z) of the instant inst.
IsUtcTextOf(t, inst) ==
    /\ t.kind = "ts" /\ t.z /\ t.off = 0
    /\ t.hh \in 0..23 /\ t.mm \in 0..59 /\ t.ss \in 0..59
    /\ Instant(t) = inst
WholeSeconds(inst) == (inst \div MsPerSecond) * MsPerSecond

\* One Swim call on a document with Creator has added one Lap, the last child
\* of the Activity, with StartTime the instant start in UTC and one Track of
\* two Trackpoints: (start, "0") and (end, the distance passed).
SwimLapAdded(start, end) ==
    /\ ~tcxPanic
    /\ Len(LapsOf(tcxDoc)) = Len(LapsOf(tcxIn.doc)) + 1
    /\ LET lap == LastChild(ActivityOf(tcxDoc)) IN
       /\ lap.tag = "Lap"
       /\ Len(lap.attrs) = 1
       /\ lap.attrs[1].key = "StartTime"
       /\ IsUtcTextOf(lap.attrs[1].value, start)
       /\ Len(TracksOf(lap)) = 1
       /\ LET pts == TracksOf(lap)[1].kids IN
          /\ Len(pts) = 2
          /\ \A i \in 1..2 : pts[i].tag = "Trackpoint"
          /\ IsUtcTextOf(TextOf(pts[1], "Time"), start)
          /\ TextOf(pts[1], "DistanceMeters") = Num(0, 0)
          /\ IsUtcTextOf(TextOf(pts[2], "Time"), end)
          /\ TextOf(pts[2], "DistanceMeters") = tcxIn.distMeters

SwimCallDone ==
    /\ tcxRuns = 1
    /\ tcxIn.actName = "Swim"
    /\ HasCreator(tcxIn.doc)
    /\ tcxIn.totalTime % MsPerSecond = 0

\* C10 as claimed: for every valid RFC 3339 Id timestamp ts, whole-second
\* duration d and distance s, the Swim transformation adds exactly one Lap
\* with StartTime = ts in UTC and a Track of exactly two Trackpoints,
\* (ts in UTC, "0") and (ts + d in UTC, s).
C10_SwimLapForEveryRFC3339 ==
    (SwimCallDone /\ ValidRFC3339(IdOf(tcxIn.doc)))
    => SwimLapAdded(Instant(IdOf(tcxIn.doc)),
                    Instant(IdOf(tcxIn.doc)) + tcxIn.totalTime)

\* C10 as amended: for every Id timestamp ts that time.Parse accepts (the
\* seconds field 00-59), the Lap's StartTime and the first Trackpoint's Time
\* are ts cut to whole seconds, in UTC, and the second Trackpoint's Time is
\* that instant plus d, in UTC.
C10_SwimLapWholeSeconds ==
    (SwimCallDone /\ ~ParseError(IdOf(tcxIn.doc)))
    => SwimLapAdded(WholeSeconds(Instant(IdOf(tcxIn.doc))),
                    WholeSeconds(Instant(IdOf(tcxIn.doc))) + tcxIn.totalTime)

\* C10 witness: a Swim call on a document whose Id has a numeric offset and
\* fractional seconds and which already holds a lap, with a duration of one
\* minute that carries the end point into the next day; the Lap was added.
C10_Witness ==
    /\ SwimCallDone
    /\ IdOf(tcxIn.doc) = Ts(1, 23, 59, 59, 500, FALSE, -330)
    /\ tcxIn.totalTime = 60000
    /\ Len(LapsOf(tcxIn.doc)) = 1
    /\ Len(LapsOf(tcxDoc)) = 2
    /\ TextOf(TracksOf(LastChild(ActivityOf(tcxDoc)))[1].kids[2], "Time")
         = Ts(2, 5, 30, 59, 0, TRUE, 0)

\* A Lap whose StartTime attribute, or the Time of one of whose Trackpoints,
\* is the empty string.
HasEmptyTime(lap) ==
    \/ \E i \in 1..Len(lap.attrs) :
          lap.attrs[i].key = "StartTime" /\ lap.attrs[i].value = Str("")
    \/ \E t \in 1..Len(TracksOf(lap)) :
          \E p \in 1..Len(TracksOf(lap)[t].kids) :
             /\ SelectElement(TracksOf(lap)[t].kids[p], "Time") # 0
             /\ TextOf(TracksOf(lap)[t].kids[p], "Time") = Str("")

\* C11: for category Swim, when the Id is not a valid RFC 3339 timestamp the
\* transformation is aborted: the document gets no Lap with an empty
\* StartTime or an empty Trackpoint Time, and nothing is handed to the file
\* writer.
C11_InvalidIdAborts ==
    (tcxRuns >= 1 /\ tcxIn.actName = "Swim" /\ ~ValidRFC3339(IdOf(tcxIn.doc)))
    => /\ \A i \in 1..Len(LapsOf(tcxDoc)) : ~HasEmptyTime(LapsOf(tcxDoc)[i])
       /\ saved = <<>>

\* The Creator element of the Activity and its Name children.
CreatorOf(d) == ActivityOf(d).kids[SelectElement(ActivityOf(d), "Creator")]
NamesOf(d) == SelectSeq(CreatorOf(d).kids, LAMBDA e : e.tag = "Name")
\* The document d with the last child of its Creator taken away.
WithoutLastOfCreator(d) ==
    LET c == SelectElement(ActivityOf(d), "Creator") IN
    [d EXCEPT !.kids[1].kids[1].kids[1].kids[c].kids = SubSeq(@, 1, Len(@) - 1)]

DeviceNameCallDone ==
    /\ tcxRuns = 1
    /\ tcxIn.actName \in {"Treadmill", "Weights"}
    /\ HasCreator(tcxIn.doc)

\* C12: for category Treadmill or Weights, one call on a document with a
\* Creator adds exactly one Name element with text "Fitbit" under the Creator
\* and no Lap, Track or Trackpoint; taking that Name away gives the element
\* tree as it was, so every other element and attribute is unchanged (the
\* white space between the elements is that of the indentation).
C12_DeviceNameOnly ==
    DeviceNameCallDone
    => /\ ~tcxPanic
       /\ Len(NamesOf(tcxDoc)) = Len(NamesOf(tcxIn.doc)) + 1
       /\ LastChild(CreatorOf(tcxDoc)) = Leaf("Name", Str("Fitbit"))
       /\ Len(LapsOf(tcxDoc)) = Len(LapsOf(tcxIn.doc))
       /\ Elements(WithoutLastOfCreator(tcxDoc)) = Elements(tcxIn.doc)
       /\ tcxDoc = Indent(tcxDoc)

\* C12 witness: a Weights call on a document that holds a lap and a Creator;
\* the Creator got its Name and the document was handed to saveToFile.
C12_Witness ==
    /\ DeviceNameCallDone
    /\ tcxIn.actName = "Weights"
    /\ Len(LapsOf(tcxIn.doc)) = 1
    /\ Len(CreatorOf(tcxDoc).kids) = Len(CreatorOf(tcxIn.doc).kids) + 1
    /\ Len(saved) = 1 /\ saved[1].doc = tcxDoc

\* C13: for every category other than "Swim", "Treadmill" and "Weights" the
\* calls leave the element tree as it was (only the white space between the
\* elements becomes that of the indentation) and hand that tree to the file
\* writer; and no single call applies both branches: a call that adds a Lap
\* is a Swim call and adds one Name, not two, and a Treadmill or Weights call
\* adds no Lap.
C13_OtherCategoriesUntouched ==
    /\ (tcxRuns >= 1 /\ tcxIn.actName \notin {"Swim", "Treadmill", "Weights"})
       => /\ ~tcxPanic
          /\ Elements(tcxDoc) = Elements(tcxIn.doc)
          /\ \A i \in 1..Len(saved) :
                Elements(saved[i].doc) = Elements(tcxIn.doc)
    /\ (tcxRuns = 1 /\ ~tcxPanic /\ HasCreator(tcxIn.doc))
       => /\ Len(NamesOf(tcxDoc)) <= Len(NamesOf(tcxIn.doc)) + 1
          /\ Len(LapsOf(tcxDoc)) > Len(LapsOf(tcxIn.doc))
               => tcxIn.actName = "Swim"

\* C13 witness: two calls for category "Run" on a document that holds a lap
\* and no Creator; both handed the unmodified tree to saveToFile.
C13_Witness ==
    /\ tcxRuns = 2
    /\ tcxIn.actName = "Run"
    /\ ~HasCreator(tcxIn.doc)
    /\ Len(LapsOf(tcxIn.doc)) = 1
    /\ Len(saved) = 2
    /\ Elements(saved[2].doc) = Elements(tcxIn.doc)
    /\ saved[2].doc = Indent(tcxIn.doc)
    /\ saved[2].doc # tcxIn.doc

\* C14: the Swim transformation is not idempotent: after k calls on the same
\* document (with the Creator the Name goes under) the Activity has exactly k
\* more Lap children and the Creator exactly k more Name children than the
\* document had at first.
C14_SwimDuplicates ==
    (tcxIn.actName = "Swim" /\ HasCreator(tcxIn.doc))
    => /\ ~tcxPanic
       /\ Len(LapsOf(tcxDoc)) = Len(LapsOf(tcxIn.doc)) + tcxRuns
       /\ Len(NamesOf(tcxDoc)) = Len(NamesOf(tcxIn.doc)) + tcxRuns
       /\ \A i \in 1..tcxRuns :
             /\ ActivityOf(tcxDoc).kids[Len(ActivityOf(tcxIn.doc).kids) + i].tag
                  = "Lap"
             /\ CreatorOf(tcxDoc).kids[Len(CreatorOf(tcxIn.doc).kids) + i]
                  = Leaf("Name", Str("Fitbit"))

\* C14 witness: the Swim transformation applied twice to a document that
\* already held one lap: three laps, the two synthesized ones equal, and two
\* Names under the Creator.
C14_Witness ==
    /\ tcxRuns = 2
    /\ tcxIn.actName = "Swim"
    /\ HasCreator(tcxIn.doc)
    /\ Len(LapsOf(tcxIn.doc)) = 1
    /\ Len(LapsOf(tcxDoc)) = 3
    /\ LapsOf(tcxDoc)[2] = LapsOf(tcxDoc)[3]
    /\ Len(NamesOf(tcxDoc)) = 2

\* The names and fixed values of the parameters of the authorization URL.
KeyResponseType == << "r", "e", "s", "p", "o", "n", "s", "e", "_", "t", "y", "p", "e" >>
KeyClientId == << "c", "l", "i", "e", "n", "t", "_", "i", "d" >>
KeyRedirectUri == << "r", "e", "d", "i", "r", "e", "c", "t", "_", "u", "r", "i" >>
KeyScope == << "s", "c", "o", "p", "e" >>
KeyCodeChallenge == << "c", "o", "d", "e", "_", "c", "h", "a", "l", "l", "e", "n", "g", "e" >>
KeyCodeChallengeMethod == << "c", "o", "d", "e", "_", "c", "h", "a", "l", "l", "e", "n", "g", "e", "_", "m", "e", "t", "h", "o", "d" >>
KeyState == << "s", "t", "a", "t", "e" >>
ValueToken == << "t", "o", "k", "e", "n" >>
AuthUrlKeys ==
    {KeyResponseType, KeyClientId, KeyRedirectUri, KeyScope, KeyCodeChallenge,
     KeyCodeChallengeMethod, KeyState}

\* The scopes joined with "+": a "+" between neighbours, none at the end.
RECURSIVE Joined(_)
Joined(scopes) ==
    IF scopes = <<>> THEN <<>>
    ELSE IF Len(scopes) = 1 THEN scopes[1]
    ELSE scopes[1] \o << "+" >> \o Joined(Tail(scopes))

\* An unreserved character of RFC 3986: a letter, a digit, "-", ".", "_"
\* or "~".  A text without reserved characters has unreserved ones only.
IsUnreservedChar(c) ==
    LET o == Ord(c) IN
    o \in (65..90) \cup (97..122) \cup (48..57) \cup {45, 46, 95, 126}
Unreserved(t) == \A i \in 1..Len(t) : IsUnreservedChar(t[i])

\* getAuthURL was called on its own and returned the URL fnRet.s.
AuthUrlBuilt == fnCall.fn = "getAuthURL" /\ fnRet.calls >= 1
\* The value written for the key in the URL (the first, if several; the
\* one-element text "(none)" if the URL has no such key).
RawValueOf(rawURL, key) ==
    LET hits == SelectSeq(RawParams(rawURL), LAMBDA p : p.key = key)
    IN  IF hits = <<>> THEN << "(none)" >> ELSE hits[1].value

\* C15: the client id and the redirect URL are URL-encoded in the URL: for
\* every client id and redirect URL, reserved characters included, the parsed
\* query of the URL has client_id and redirect_uri equal to the inputs, and
\* the other parameters are the seven of the format string with their own
\* values.
C15_ClientIdAndRedirectEncoded ==
    AuthUrlBuilt
    => LET qy == Query(fnRet.s) IN
       /\ ValuesOf(qy, KeyClientId) = << fnCall.cfg.ClientID >>
       /\ ValuesOf(qy, KeyRedirectUri) = << fnCall.cfg.RedirectURL >>
       /\ KeysOf(qy) = AuthUrlKeys
       /\ ValuesOf(qy, KeyResponseType) = << ValueToken >>
       /\ RawValueOf(fnRet.s, KeyScope) = Joined(fnCall.cfg.Scopes)
       /\ ValuesOf(qy, KeyCodeChallenge) = << fnCall.s >>
       /\ ValuesOf(qy, KeyCodeChallengeMethod) = << S256 >>
       /\ ValuesOf(qy, KeyState) = << stateAuth >>

VerifierCalled == fnCall.fn = "generateCodeVerifier" /\ fnRet.calls >= 1

\* The random source as the latest call of generateCodeVerifier found it (a
\* call that failed is not counted among the draws), and whether a source
\* fails within the n draws of a call.
RandOfLatestVerifier == RandAfter(fnCall.rnd, fnRet.drawn - Len(fnRet.s))
FailsWithin(rnd, n) == \E i \in 0..(n - 1) : RandFails(rnd, i)

\* C16 as amended: generateCodeVerifier(L) returns, for 43 <= L <= 128 and a
\* random source that delivers the L numbers, no error and a string of
\* exactly L characters, each one of the 66 unreserved characters
\* [A-Za-z0-9-._~]; for 43 <= L <= 128 and a random source that fails at one
\* of the L draws, and for L < 43 or L > 128, it returns an error and the
\* empty string.
C16_VerifierUnlessRandFails ==
    VerifierCalled
    => /\ Cardinality({rfc3986Chars[i] : i \in 1..Len(rfc3986Chars)}) = 66
       /\ \A i \in 1..Len(rfc3986Chars) : IsUnreservedChar(rfc3986Chars[i])
       /\ IF /\ 43 <= fnCall.n /\ fnCall.n <= 128
             /\ ~FailsWithin(RandOfLatestVerifier, fnCall.n)
          THEN /\ ~fnRet.err
               /\ Len(fnRet.s) = fnCall.n
               /\ Unreserved(fnRet.s)
          ELSE /\ fnRet.err
               /\ fnRet.s = <<>>

\* C16 as stated: generateCodeVerifier(L) returns, for 43 <= L <= 128, no
\* error and a string of exactly L characters, each one of the 66 unreserved
\* characters [A-Za-z0-9-._~]; for L < 43 or L > 128 it returns an error and
\* the empty string.
C16_VerifierLengthAndAlphabet ==
    VerifierCalled
    => /\ Cardinality({rfc3986Chars[i] : i \in 1..Len(rfc3986Chars)}) = 66
       /\ \A i \in 1..Len(rfc3986Chars) : IsUnreservedChar(rfc3986Chars[i])
       /\ IF 43 <= fnCall.n /\ fnCall.n <= 128
          THEN /\ ~fnRet.err
               /\ Len(fnRet.s) = fnCall.n
               /\ Unreserved(fnRet.s)
          ELSE /\ fnRet.err
               /\ fnRet.s = <<>>

\* C16 witness: two calls with the longest valid length; both returned 128
\* characters, and the two verifiers differ.
C16_Witness ==
    /\ VerifierCalled
    /\ fnCall.n = 128
    /\ fnRet.calls = 2
    /\ Len(fnRet.all[1]) = 128 /\ Len(fnRet.all[2]) = 128
    /\ fnRet.all[1] # fnRet.all[2]


ChallengeCalled == fnCall.fn = "generateCodeChallenge" /\ fnRet.calls >= 1
\* The challenge the repository's test setting gives for "testverifier".
TestVerifierChallenge ==
    << "5", "e", "c", "e", "6", "y", "y", "U", "y", "n", "-", "E",
       "B", "3", "A", "g", "U", "1", "L", "X", "I", "8", "k", "w",
       "W", "C", "m", "t", "c", "c", "d", "Y", "e", "g", "z", "g",
       "b", "S", "6", "S", "h", "q", "4" >>

\* C17: generateCodeChallenge returns an error and the empty challenge exactly
\* when the verifier is the empty string; for a non-empty verifier it returns
\* no error and a non-empty challenge of 43 base64url characters, and every
\* call with the same verifier returns the same challenge.
C17_ChallengeErrorIffEmpty ==
    ChallengeCalled
    => /\ fnRet.err <=> fnCall.s = <<>>
       /\ fnRet.err => fnRet.s = <<>>
       /\ ~fnRet.err
          => /\ Len(fnRet.s) = 43
             /\ \A i \in 1..Len(fnRet.s) :
                   \E k \in 1..Len(encodeURL) : encodeURL[k] = fnRet.s[i]
       /\ \A i \in 1..Len(fnRet.all) : fnRet.all[i] = fnRet.s
       /\ stateAuth = "" /\ token = ""

\* C17 witness: two calls with the verifier "testverifier" both returned the
\* challenge of the repository's test.
C17_Witness ==
    /\ ChallengeCalled
    /\ fnCall.s = << "t", "e", "s", "t", "v", "e", "r", "i", "f", "i", "e", "r" >>
    /\ fnRet.calls = 2
    /\ ~fnRet.err
    /\ fnRet.all = <<TestVerifierChallenge, TestVerifierChallenge>>


ConvertCalled == fnCall.fn = "convertTimestamp" /\ fnRet.calls >= 1

\* C18 as stated: for every valid RFC 3339 timestamp ts and every duration d
\* of whole seconds, convertTimestamp returns no error and the instant of ts
\* plus d, in UTC; with d = 0 and ts in UTC the result is ts unchanged; for
\* any other text it returns a parse error and the empty string.
C18_InstantPlusDuration ==
    (ConvertCalled /\ fnCall.n % MsPerSecond = 0)
    => IF ValidRFC3339(fnCall.ts)
       THEN /\ ~fnRet.err
            /\ IsUtcTextOf(fnRet.s, Instant(fnCall.ts) + fnCall.n)
            /\ (fnCall.n = 0 /\ fnCall.ts.z) => fnRet.s = fnCall.ts
       ELSE /\ fnRet.err
            /\ fnRet.s = Str("")

\* C18 as amended: for every timestamp ts that time.Parse accepts (the seconds
\* field 00-59) and every duration d of whole seconds, convertTimestamp
\* returns no error and the instant of ts cut to whole seconds plus d, in UTC
\* with the offset Z; with d = 0 and ts written with Z and without fractional
\* seconds the result is ts unchanged; for any other text, a leap second
\* included, it returns a parse error and the empty string.
C18_WholeSecondsPlusDuration ==
    (ConvertCalled /\ fnCall.n % MsPerSecond = 0)
    => IF ~ParseError(fnCall.ts)
       THEN /\ ~fnRet.err
            /\ IsUtcTextOf(fnRet.s, WholeSeconds(Instant(fnCall.ts)) + fnCall.n)
            /\ (fnCall.n = 0 /\ fnCall.ts.z /\ fnCall.ts.ms = 0)
               => fnRet.s = fnCall.ts
       ELSE /\ fnRet.err
            /\ fnRet.s = Str("")

\* C18 witness: a timestamp with the offset +02:00 and half a second, thirty
\* seconds subtracted: the result lies in the previous day, in UTC.
C18_Witness ==
    /\ ConvertCalled
    /\ fnCall.ts = Ts(1, 0, 0, 0, 500, FALSE, 120)
    /\ fnCall.n = -30000
    /\ ~fnRet.err
    /\ fnRet.s = Ts(0, 21, 59, 30, 0, TRUE, 0)


ScopesCalled == fnCall.fn = "scopeStringBuilder" /\ fnRet.calls >= 1

\* C19: scopeStringBuilder(scopes) is the scopes joined with "+", without a
\* separator at the end, for every list of scopes, empty scopes included, and
\* raises no error; for the empty list it is the empty string, and the URL
\* getAuthURL builds from a configuration without scopes (and without a "#"
\* that would end the query before it) has the scope parameter, with the
\* empty value, and the missing scopes make no call fail (a call ends the
\* process only by the panic of a failing random source).
C19_ScopesJoinedWithPlus ==
    /\ ScopesCalled
       => /\ fnRet.s = Joined(fnCall.cfg.Scopes)
          /\ ~fnRet.err
          /\ fnCall.cfg.Scopes = <<>> => fnRet.s = <<>>
          /\ proc = "running"
    /\ ( /\ AuthUrlBuilt
         /\ fnCall.cfg.Scopes = <<>>
         /\ IndexOf(fnCall.cfg.ClientID, "#") = 0
         /\ IndexOf(fnCall.cfg.RedirectURL, "#") = 0 )
       => /\ RawValueOf(fnRet.s, KeyScope) = <<>>
          /\ \/ proc = "running"
             \/ /\ proc = "panic"
                /\ FailsWithin(RandAfter(fnCall.rnd, fnRet.drawn), StateLength)

\* C19 witness: the list "a", "", "d+" was joined to "a++d+".
C19_Witness ==
    /\ ScopesCalled
    /\ fnCall.cfg.Scopes = << << "a" >>, <<>>, << "d", "+" >> >>
    /\ fnRet.s = << "a", "+", "+", "d", "+" >>


\* The challenge, the client id, the redirect URL and every scope of the call
\* consist of unreserved characters only (or are empty).
NoReservedCharacters ==
    /\ Unreserved(fnCall.s)
    /\ Unreserved(fnCall.cfg.ClientID)
    /\ Unreserved(fnCall.cfg.RedirectURL)
    /\ \A i \in 1..Len(fnCall.cfg.Scopes) : Unreserved(fnCall.cfg.Scopes[i])
Param(key, value) == [key |-> key, value |-> value]

\* getAuthURL was called, a call returned or a call panicked, and no request
\* built after it has ended the process.
AuthUrlCalled ==
    /\ fnCall.fn = "getAuthURL" /\ proc # "fatal"
    /\ fnRet.calls >= 1 \/ proc = "panic"
\* The random source as the latest call of getAuthURL that returned found it.
RandOfLatestCall == RandAfter(fnCall.rnd, fnRet.drawn - StateLength)
\* The URL the latest call returned is the authorization endpoint followed
\* by the seven parameters, each once.
SevenParameters ==
    /\ ~fnRet.err
    /\ CutBefore(fnRet.s, "?") = AuthEndpoint
    /\ IndexOf(fnRet.s, "#") = 0
    /\ Len(stateAuth) = StateLength
    /\ RawParams(fnRet.s)
         = << Param(KeyResponseType, ValueToken),
              Param(KeyClientId, fnCall.cfg.ClientID),
              Param(KeyRedirectUri, fnCall.cfg.RedirectURL),
              Param(KeyScope, Joined(fnCall.cfg.Scopes)),
              Param(KeyCodeChallenge, fnCall.s),
              Param(KeyCodeChallengeMethod, S256),
              Param(KeyState, stateAuth) >>

\* C20 as amended: for every configuration and challenge without reserved
\* characters, empty values included, a call of getAuthURL whose random
\* source delivers the 32 numbers returns the authorization endpoint
\* followed by exactly seven parameters, each once: response_type=token,
\* client_id, redirect_uri, scope = the scopes joined with "+",
\* code_challenge = the challenge passed, code_challenge_method=S256 and
\* state = the 32 characters left in stateAuth; getAuthURL fails in one way
\* only: a call whose random source fails at one of the 32 draws panics,
\* returns no URL and leaves stateAuth as it was.
C20_ExactParametersUnlessRandFails ==
    (fnCall.fn = "getAuthURL" /\ proc # "fatal" /\ NoReservedCharacters)
    => /\ proc \in {"running", "panic"}
       /\ proc = "panic"
          => FailsWithin(RandAfter(fnCall.rnd, fnRet.drawn), StateLength)
       /\ fnRet.calls = 0 => stateAuth = ""
       /\ AuthUrlBuilt
          => /\ ~FailsWithin(RandOfLatestCall, StateLength)
             /\ SevenParameters

\* C20 as stated: for every configuration and challenge without reserved
\* characters, empty values included, getAuthURL returns (it does not fail)
\* the authorization endpoint followed by exactly seven parameters, each
\* once: response_type=token, client_id, redirect_uri, scope = the scopes
\* joined with "+", code_challenge = the challenge passed,
\* code_challenge_method=S256 and state = the 32 characters left in stateAuth.
C20_ExactParameters ==
    (AuthUrlCalled /\ NoReservedCharacters)
    => /\ proc = "running"
       /\ ~fnRet.err
       /\ CutBefore(fnRet.s, "?") = AuthEndpoint
       /\ IndexOf(fnRet.s, "#") = 0
       /\ Len(stateAuth) = StateLength
       /\ RawParams(fnRet.s)
            = << Param(KeyResponseType, ValueToken),
                 Param(KeyClientId, fnCall.cfg.ClientID),
                 Param(KeyRedirectUri, fnCall.cfg.RedirectURL),
                 Param(KeyScope, Joined(fnCall.cfg.Scopes)),
                 Param(KeyCodeChallenge, fnCall.s),
                 Param(KeyCodeChallengeMethod, S256),
                 Param(KeyState, stateAuth) >>

\* C20 witness: getAuthURL returned for an empty challenge, an empty client
\* id and an empty redirect URL with two scopes; the URL has seven parameters,
\* client_id, redirect_uri and code_challenge with empty values.
C20_Witness ==
    /\ AuthUrlBuilt
    /\ fnCall.s = <<>>
    /\ fnCall.cfg.ClientID = <<>>
    /\ fnCall.cfg.RedirectURL = <<>>
    /\ Len(fnCall.cfg.Scopes) = 2
    /\ Len(RawParams(fnRet.s)) = 7
    /\ RawValueOf(fnRet.s, KeyClientId) = <<>>
    /\ RawValueOf(fnRet.s, KeyCodeChallenge) = <<>>
    /\ RawValueOf(fnRet.s, KeyScope) = Joined(fnCall.cfg.Scopes)


\* The positions of main in the order of its statements (main.go:46-79).
MainOrder ==
    << "readCred", "genVerifier", "genChallenge", "getAuthURL", "openBrowser",
       "startListener", "waitDone", "received", "returned" >>
MainAt(k) == mainPc = MainOrder[k]
MainPast(k) == \E j \in (k + 1)..Len(MainOrder) : mainPc = MainOrder[j]

\* C21: main performs its steps in the order generate verifier, generate
\* challenge, build the authorization URL, open the browser, start the
\* listener, wait for the completion signal, one step at a time and none
\* twice; the listener goroutine exists and the listener serves only when
\* main is past the start of the listener, hence past a browser-open call
\* that returned; and when the browser-open call failed the process is ended
\* with main at that call, no listener started and no signal received.
C21_MainStepOrder ==
    /\ [][ mainPc' # mainPc
           => \E k \in 1..(Len(MainOrder) - 1) :
                 mainPc = MainOrder[k] /\ mainPc' = MainOrder[k + 1] ]_vars
    /\ [][ (lsPc = "none" /\ lsPc' # "none")
           => (mainPc = "startListener" /\ mainPc' = "waitDone"
               /\ proc = "running") ]_vars
    /\ [][ (stateAuth' # stateAuth)
           => (mainPc = "getAuthURL" /\ mainPc' = "openBrowser") ]_vars
    /\ [] ( (lsPc # "none" \/ listener # "off" \/ nSent > 0) => MainPast(6) )
    /\ [] ( (proc = "fatal" /\ MainAt(5))
            => (lsPc = "none" /\ listener = "off" /\ nSent = 0) )
    /\ [][ proc = "running" ]_vars

\* C21 witness: main waits for the completion signal, the correlation value
\* is stored and the listener, started after the browser, is serving.
C21_Witness ==
    /\ mainPc = "waitDone"
    /\ stateAuth # ""
    /\ lsPc = "serving"
    /\ listener = "serving"
    /\ proc = "running"


\* The process was ended by handleError (main.go:39-43) in one of the steps
\* before getAuthURL: reading the credentials, generating the verifier or
\* generating the challenge.
AbortedBeforeAuthURL == proc = "panic" /\ (MainAt(1) \/ MainAt(2) \/ MainAt(3))

\* C22: when reading the credentials, generating the verifier or generating
\* the challenge fails, the process is ended before getAuthURL: in every
\* state of such a run main stands at the step that failed, no correlation
\* value is stored, the listener goroutine does not exist, the listener does
\* not serve, no request was dispatched, nothing was saved and no signal was
\* sent.
C22_AbortBeforeAuthURL ==
    AbortedBeforeAuthURL
    => /\ stateAuth = ""
       /\ lsPc = "none"
       /\ listener = "off"
       /\ \A h \in Handlers : hpc[h] = "new" /\ sd[h] = "none"
       /\ saved = <<>>
       /\ nShutdown = 0
       /\ nSent = 0
       /\ stateRedir = "" /\ token = ""

\* C22 witness: generateCodeVerifier failed and handleError ended the process.
C22_Witness == proc = "panic" /\ mainPc = "genVerifier" /\ stateAuth = ""


CredCalled == fnCall.fn = "readCredFile" /\ fnRet.calls >= 1
\* The text is not JSON, or it is JSON that does not fit the credentials: not
\* an object (and not null), or an object in which a credential member is
\* neither a string nor null.
Malformed(file) ==
    \/ file.kind \in {"malformed", "array"}
    \/ /\ file.kind = "object"
       /\ \E i \in 1..Len(file.members) :
             /\ FieldOf(file.members[i].key) # ""
             /\ file.members[i].val.kind = "number"
\* The value the file gives for a credential: the string of its last member
\* with that name, the empty string if it has none.
FileValue(file, name) ==
    LET hits == SelectSeq(file.members, LAMBDA m :
                    FieldOf(m.key) = name /\ m.val.kind = "string")
    IN  IF hits = <<>> THEN <<>> ELSE hits[Len(hits)].val.s

\* C23: readCredFile returns a read error and no configuration when the
\* reader fails; else an unmarshal error and no configuration when the text
\* is malformed; else a configuration error and no configuration when the
\* client id or the redirect URL is empty; otherwise no error and the
\* configuration with the file's client id, client secret and redirect URL
\* and the scopes activity, heartrate, location, profile in that order.
C23_ReadCredFile ==
    CredCalled
    => LET f == fnCall.file IN
       IF f.readErr
       THEN fnRet.why = "read" /\ fnRet.cfg.nil /\ fnRet.err
       ELSE IF Malformed(f)
       THEN fnRet.why = "unmarshal" /\ fnRet.cfg.nil /\ fnRet.err
       ELSE IF FileValue(f, "clientid") = <<>> \/ FileValue(f, "redirecturl") = <<>>
       THEN fnRet.why = "config" /\ fnRet.cfg.nil /\ fnRet.err
       ELSE /\ fnRet.why = "" /\ ~fnRet.err
            /\ ~fnRet.cfg.nil
            /\ fnRet.cfg.cfg.ClientID = FileValue(f, "clientid")
            /\ fnRet.cfg.cfg.ClientSecret = FileValue(f, "clientsecret")
            /\ fnRet.cfg.cfg.RedirectURL = FileValue(f, "redirecturl")
            /\ fnRet.cfg.cfg.Scopes
                 = << << "a", "c", "t", "i", "v", "i", "t", "y" >>,
                      << "h", "e", "a", "r", "t", "r", "a", "t", "e" >>,
                      << "l", "o", "c", "a", "t", "i", "o", "n" >>,
                      << "p", "r", "o", "f", "i", "l", "e" >> >>

\* C23 witness: a file with the client id "id", the secret "sec" and the
\* redirect URL "cb" was read into a configuration.
C23_Witness ==
    /\ CredCalled
    /\ ~fnCall.file.readErr
    /\ fnCall.file.kind = "object"
    /\ ~fnRet.cfg.nil
    /\ fnRet.cfg.cfg.ClientID = << "i", "d" >>
    /\ fnRet.cfg.cfg.ClientSecret = << "s", "e", "c" >>
    /\ fnRet.cfg.cfg.RedirectURL = << "c", "b" >>
    /\ Len(fnRet.cfg.cfg.Scopes) = 4



\* The program built the request of the activity list, of the TCX.
ListRequested == AuthUrlBuilt /\ fnRet.list # NoRequest
TcxRequested == AuthUrlBuilt /\ fnRet.tcx # NoRequest
SecretWord == << "s", "e", "c", "r", "e", "t" >>
\* The client secret of the configuration is not empty and is part of
\* neither the token nor the text t.
SecretApartFrom(t) ==
    /\ fnCall.cfg.ClientSecret # <<>>
    /\ ~Contains(fnCall.tok, fnCall.cfg.ClientSecret)
    /\ ~Contains(t, fnCall.cfg.ClientSecret)
\* The request q has the header "Bearer " followed by the token and a URL
\* around the text t, and carries neither the client secret nor a secret
\* parameter.
WithoutSecret(q, t) ==
    /\ q.hdr = << "B", "e", "a", "r", "e", "r", " " >> \o fnCall.tok
    /\ Len(q.url) > Len(t) /\ Contains(q.url, t)
    /\ SecretApartFrom(t)
       => ( ~Contains(q.url, fnCall.cfg.ClientSecret)
            /\ ~Contains(q.hdr, fnCall.cfg.ClientSecret) )
    /\ ~Contains(t, SecretWord) => ~Contains(q.url, SecretWord)
    /\ ~Contains(fnCall.tok, SecretWord) => ~Contains(q.hdr, SecretWord)

\* C24: the client secret is not used.  The URL getAuthURL builds for a
\* configuration is the URL built, with the same random numbers, for every
\* configuration that differs from it in the client secret only; a non-empty
\* client secret occurs nowhere in that URL, and neither does a client_secret
\* parameter.  The request of the activity list and the request of the TCX,
\* built in the process that holds the configuration, consist of a URL made
\* of literals and the date argument or the log id and of the header
\* "Bearer " followed by the token: a client secret that is part of neither
\* the token nor the date occurs in neither the URL nor the header, and no
\* request names a secret parameter.
C24_ClientSecretUnused ==
    /\ AuthUrlBuilt
       => /\ \A sec \in ClientSecrets :
                getAuthURL(fnCall.s,
                           [fnCall.cfg EXCEPT !.ClientSecret = sec],
                           RandOfLatestCall).url = fnRet.s
          /\ fnCall.cfg.ClientSecret # <<>>
             => ~Contains(fnRet.s, fnCall.cfg.ClientSecret)
          /\ ~Contains(fnRet.s, SecretWord)
    /\ ListRequested => WithoutSecret(fnRet.list, fnCall.arg)
    /\ TcxRequested => WithoutSecret(fnRet.tcx, FormatInt(fnCall.n))

\* C24 witness: for a configuration with the client secret "S3CR3T" and a
\* client id the program built the authorization URL, the request of the
\* activity list and the request of the TCX of activity 1234567890 with the
\* token "t1"; the URL has the client id, and none of the three has the
\* secret.
C24_Witness ==
    /\ AuthUrlBuilt /\ ListRequested /\ TcxRequested
    /\ fnCall.cfg.ClientSecret = << "S", "3", "C", "R", "3", "T" >>
    /\ fnCall.cfg.ClientID = << "i", "d" >>
    /\ fnCall.tok = << "t", "1" >>
    /\ fnCall.n = 1234567890
    /\ RawValueOf(fnRet.s, KeyClientId) = << "i", "d" >>
    /\ fnRet.tcx.hdr = << "B", "e", "a", "r", "e", "r", " ", "t", "1" >>
    /\ \A t \in {fnRet.s, fnRet.list.url, fnRet.list.hdr,
                  fnRet.tcx.url, fnRet.tcx.hdr} :
          ~Contains(t, << "S", "3", "C", "R", "3", "T" >>)


\* The positions of the goroutine of main.go:450-455 in the order of its
\* statements: started after saveToFile, in Shutdown, Shutdown returned (at
\* the send), the send completed.
ShutdownOrder == << "none", "spawned", "inShutdown", "sending", "sent" >>
Started(h) == sd[h] # "none"
ShutdownInitiated(h) == sd[h] \in {"inShutdown", "sending", "sent"}
ShutdownReturned(h) == sd[h] \in {"sending", "sent"}

\* Handler h has handed its document to saveToFile.
HandedOver(h) == hpc[h] \in {"saveToFile", "L450"} \/ Started(h)

\* C25: in every run the events of a pipeline occur in the order: the
\* document is handed to saveToFile, server.Shutdown is initiated, Shutdown
\* returns, the signal is sent on done, main returns.  Every goroutine of
\* main.go:450 is started by a handler whose document was handed to
\* saveToFile before, and moves through its statements in order; Shutdown
\* has returned only when no handler is in flight; main has received the
\* signal, and the process has exited, only when a goroutine has completed
\* its send after its Shutdown returned, so main never returns while the
\* listener serves; and the listener goroutine leaves ListenAndServe only
\* after the shutdown, returning without ending the process.
C25_ShutdownOrder ==
    /\ [][ \A h \in Handlers :
             sd'[h] # sd[h]
             => /\ \E k \in 1..(Len(ShutdownOrder) - 1) :
                      sd[h] = ShutdownOrder[k] /\ sd'[h] = ShutdownOrder[k + 1]
                /\ (sd[h] = "none")
                      => (hpc[h] = "L450" /\ Len(saved') = Len(saved)) ]_vars
    /\ [][ Len(saved') # Len(saved)
           => \E h \in Handlers :
                 /\ ~HandedOver(h) /\ sd[h] = "none"
                 /\ hpc'[h] = "saveToFile"
                 /\ Len(saved') = Len(saved) + 1 ]_vars
    /\ [] ( Cardinality({h \in Handlers : HandedOver(h)}) = Len(saved) )
    /\ [] ( Cardinality({h \in Handlers : ShutdownInitiated(h)}) = nShutdown )
    /\ [] ( listener = "shutdown" <=> nShutdown >= 1 )
    /\ [] ( \A h \in Handlers :
              ShutdownReturned(h) => \A k \in Handlers : ~InFlight(k) )
    /\ [] ( MainPast(7)
            => /\ nSent = 1
               /\ \E h \in Handlers : sd[h] = "sent"
               /\ listener = "shutdown"
               /\ Len(saved) >= 1 )
    /\ [] ( proc = "exited" <=> mainPc = "returned" )
    /\ [][ (lsPc = "serving" /\ lsPc' # lsPc)
           => (listener = "shutdown" /\ lsPc' = "returned"
               /\ proc' = "running") ]_vars
    /\ [] ( lsPc = "returned" => listener = "shutdown" )

\* C25 witness: a run that succeeded: one document saved, Shutdown called
\* once, the listener goroutine returned, the signal sent and received, main
\* returned.
C25_Witness ==
    /\ proc = "exited"
    /\ Len(saved) = 1
    /\ nShutdown = 1
    /\ nSent = 1
    /\ lsPc = "returned"
    /\ \E h \in Handlers : sd[h] = "sent"


\* Handler h serves a completion request whose state parameter is empty.
EmptyStateRequest(h) == req[h].path = "/token-received" /\ req[h].state = ""

\* C26: in a run of main stateAuth is written once, by getAuthURL, before the
\* listener goroutine is started, and by no request handler; while the
\* listener serves (and after) stateAuth is a value generateRandomString
\* produced, never the empty string; and a completion request with an empty
\* state parameter is never accepted.
C26_StateAuthWrittenOnce ==
    /\ [][ stateAuth' # stateAuth
           => /\ mainPc = "getAuthURL" /\ mainPc' = "openBrowser"
              /\ stateAuth = ""
              /\ lsPc = "none" /\ listener = "off" ]_vars
    /\ [] ( listener # "off" => stateAuth \in RandomStates )
    /\ [] ( \A h \in Handlers : EmptyStateRequest(h) => ~Accepted(h) )


\* One Swim call was made on a document that has the Creator.
SwimDone == tcxRuns = 1 /\ tcxIn.actName = "Swim" /\ HasCreator(tcxIn.doc)
\* The tags of the children of an element, in document order.
Tags(e) == [i \in 1..Len(e.kids) |-> e.kids[i].tag] \o <<>>
\* The element without its last child.
WithoutLast(e) == [e EXCEPT !.kids = SubSeq(@, 1, Len(@) - 1)]

\* C27: after a Swim call the new Lap is the last child of the Activity and
\* its children are, in this order, TotalTimeSeconds, DistanceMeters,
\* Calories, Intensity "Active", TriggerMethod "Manual", Track; the children
\* of each Trackpoint are Time, DistanceMeters; the new Name is the last
\* child of the Creator; and the children the Activity and the Creator had
\* before are all there, unchanged and in their order, before the new ones.
C27_LapChildOrder ==
    SwimDone
    => /\ ~tcxPanic
       /\ LET actIn == ActivityOf(tcxIn.doc)
              actOut == ActivityOf(tcxDoc)
              lap == LastChild(actOut)
              c == SelectElement(actIn, "Creator")
          IN  /\ lap.tag = "Lap"
              /\ Tags(lap) = << "TotalTimeSeconds", "DistanceMeters",
                                "Calories", "Intensity", "TriggerMethod",
                                "Track" >>
              /\ lap.kids[2].text = tcxIn.distMeters
              /\ lap.kids[3].text = tcxIn.calories
              /\ lap.kids[4].text = Str("Active")
              /\ lap.kids[5].text = Str("Manual")
              /\ Tags(lap.kids[6]) = << "Trackpoint", "Trackpoint" >>
              /\ \A p \in 1..2 :
                    Tags(lap.kids[6].kids[p]) = << "Time", "DistanceMeters" >>
              /\ Len(actOut.kids) = Len(actIn.kids) + 1
              /\ \A i \in 1..Len(actIn.kids) :
                    IF i = c
                    THEN /\ actOut.kids[i].tag = "Creator"
                         /\ LastChild(actOut.kids[i]) = Leaf("Name", Str("Fitbit"))
                         /\ Elements(WithoutLast(actOut.kids[i]))
                              = Elements(actIn.kids[i])
                    ELSE Elements(actOut.kids[i]) = Elements(actIn.kids[i])

\* C27 witness: a Swim call on a document whose Activity holds the Id, a lap
\* and the Creator: the Activity has four children, the old lap before the
\* Creator and the new Lap, with six children, after it.
C27_Witness ==
    /\ SwimDone
    /\ Tags(ActivityOf(tcxIn.doc)) = << "Id", "Lap", "Creator" >>
    /\ Tags(ActivityOf(tcxDoc)) = << "Id", "Lap", "Creator", "Lap" >>
    /\ Len(LastChild(ActivityOf(tcxDoc)).kids) = 6
    /\ Tags(CreatorOf(tcxDoc)) = << "UnitId", "ProductID", "Name" >>


\* C28: injectActivityTcx completes normally for the categories Swim,
\* Treadmill and Weights on every document with the
\* TrainingCenterDatabase/Activities/Activity root, with or without the
\* Creator element: no call panics, and as long as serializing and writing
\* do not fail every call has handed its document to saveToFile.
C28_CompletesWithoutCreator ==
    (tcxRuns >= 1 /\ tcxIn.actName \in {"Swim", "Treadmill", "Weights"})
    => /\ ~tcxPanic
       /\ proc = "running" => Len(saved) = tcxRuns


\* The activity of the upstream list with the log id.
ActivityWithLogId(id) == CHOOSE a \in ProtoActivities : a.logId = id
\* The whole seconds of a duration of d milliseconds.
FloorSeconds(d) == d \div 1000

\* C29: for a selected Swim activity with a duration of D milliseconds the
\* document handed to saveToFile has, in its new Lap, TotalTimeSeconds =
\* floor(D/1000), a whole number, and an end Trackpoint whose Time is the
\* Time of the start Trackpoint plus floor(D/1000) seconds.
C29_WholeSecondsPassed ==
    \A i \in 1..Len(saved) :
       saved[i].name = "Swim"
       => LET a == ActivityWithLogId(saved[i].logId)
              lap == LastChild(ActivityOf(saved[i].doc))
              pts == TracksOf(lap)[1].kids
              total == TextOf(lap, "TotalTimeSeconds")
          IN  /\ total = Num(FloorSeconds(a.duration), 0)
              /\ total.ms = 0
              /\ IsUtcTextOf(TextOf(pts[2], "Time"),
                             Instant(TextOf(pts[1], "Time"))
                               + FloorSeconds(a.duration) * MsPerSecond)

\* C29 witness: the Swim activity of 60500 ms was selected and saved with
\* TotalTimeSeconds 60 and an end point 60 seconds after the start (10:00:00
\* +02:00 = 08:00:00Z).
C29_Witness ==
    /\ Len(saved) >= 1
    /\ saved[1].name = "Swim" /\ saved[1].logId = 1
    /\ LET lap == LastChild(ActivityOf(saved[1].doc)) IN
       /\ TextOf(lap, "TotalTimeSeconds") = Num(60, 0)
       /\ TextOf(TracksOf(lap)[1].kids[1], "Time") = Ts(0, 8, 0, 0, 0, TRUE, 0)
       /\ TextOf(TracksOf(lap)[1].kids[2], "Time") = Ts(0, 8, 1, 0, 0, TRUE, 0)

====
